---- MODULE Spec2Model ----
(***************************************************************************)
(* The backtesting core of SentXStock: the walk-forward engine             *)
(* (backtest/engine.py), the strategy's classification and sizing          *)
(* (backtest/strategy.py), the result store (backtest/report.py), the      *)
(* run_backtest entry point (backtest/runner.py), the choice of the        *)
(* summary metrics (engine.py, metrics.py), the metrics themselves in      *)
(* floating point (backtest/metrics.py), the strategy's signal frame       *)
(* (strategy.py) and the backtest job of the API server (server.py).       *)
(* Each part has its own specification; the variables of the other parts   *)
(* stay idle in it.                                                        *)
(*                                                                         *)
(* Money is an integer number of 1/MoneyScale currency units, so that a    *)
(* slippage given in basis points is applied exactly to whole-currency     *)
(* prices.  A position fraction is a rational [num, den].  The equity      *)
(* curve is kept as exact rationals [num, den].                            *)
(***************************************************************************)
EXTENDS Integers, Sequences, FiniteSets, TLC

\* ---------------------------------------------------------------- bounds
NDays == 3

\* ------------------------------------------------------ program constants
MoneyScale == 10000
TRADING_DAYS_PER_YEAR == 252
RfAnnualNum == 5
RfAnnualDen == 100
DefaultMaxOpen == 20
DefaultSlippageBps == 5

Money(x) == x * MoneyScale

\* ------------------------------------------------------------- arithmetic
Abs(x) == IF x < 0 THEN -x ELSE x
Max(a, b) == IF a >= b THEN a ELSE b

RECURSIVE GCD(_, _)
GCD(a, b) == IF b = 0 THEN Abs(a) ELSE GCD(b, a % Abs(b))

\* floor(x * num / den) without forming x * num (den > 0)
MulDiv(x, num, den) == (x \div den) * num + ((x % den) * num) \div den

\* Python int(a / b) for b > 0: truncation toward zero
TruncDiv(a, b) == IF a >= 0 THEN a \div b ELSE -((-a) \div b)

\* exact rationals [num, den] with den > 0; den = 0 stands for the floats that
\* are not finite: [0, 0] is NaN, [1, 0] is +inf, [-1, 0] is -inf
Sign(x) == IF x > 0 THEN 1 ELSE IF x < 0 THEN -1 ELSE 0
NaN == [num |-> 0, den |-> 0]
IsNaN(a) == a.den = 0 /\ a.num = 0

Rat(n, d) ==
    IF d = 0 THEN [num |-> Sign(n), den |-> 0]
    ELSE LET g == GCD(n, d)
             s == Sign(d)
         IN  [num |-> s * (n \div g), den |-> s * (d \div g)]

RatMul(a, b) ==
    IF a.den = 0 \/ b.den = 0
    THEN [num |-> Sign(a.num) * Sign(b.num), den |-> 0]
    ELSE LET g1 == GCD(a.num, b.den)
             g2 == GCD(b.num, a.den)
         IN  Rat((a.num \div g1) * (b.num \div g2), (a.den \div g2) * (b.den \div g1))

RatAddOne(a) == IF a.den = 0 THEN a ELSE Rat(a.num + a.den, a.den)

RECURSIVE SumOver(_, _)
SumOver(S, f) ==
    IF S = {} THEN 0
    ELSE LET x == CHOOSE y \in S : TRUE IN f[x] + SumOver(S \ {x}, f)

\* --------------------------------------------------------- Python values
\* a Python value is [type, num, str]
Py(type, num, str) == [type |-> type, num |-> num, str |-> str]
PyFloat(n) == Py("float", n, "")
PyInt(n) == Py("int", n, "")
PyStr(x) == Py("str", 0, x)
None == Py("NoneType", 0, "")
\* a value json cannot encode (a Timestamp, a numpy integer): str holds str(v)
PyObject(x) == Py("object", 0, x)

\* --------------------------------------------------------------- the data
TickerOrder == <<"A", "B">>
TickerSet == {TickerOrder[i] : i \in 1..Len(TickerOrder)}

Row(o, c) == [Open |-> Money(o), Close |-> Money(c)]

\* both assets quoted every day at a constant price
FlatTable ==
    [t \in TickerSet |-> [d \in 1..NDays |-> IF t = "A" THEN Row(1, 1) ELSE Row(2, 2)]]

\* A swings between 1 and 2 (open and close differ, successive opens differ)
SwingTable ==
    [t \in TickerSet |->
        [d \in 1..NDays |->
            IF t = "A" THEN (IF d % 2 = 1 THEN Row(1, 2) ELSE Row(2, 1))
            ELSE Row(1, 1)]]

\* A has no row on date 2, B has no row on date 1
GapTable ==
    [t \in TickerSet |->
        IF t = "A" THEN [d \in (1..NDays) \ {2} |-> Row(1, 1)]
        ELSE [d \in 2..NDays |-> Row(2, 1)]]

\* one asset at a constant price of 100
HundredTable == [t \in {"A"} |-> [d \in 1..NDays |-> Row(100, 100)]]

Pct(n, d) == [num |-> n, den |-> d]

EngineConfig(cap, slip, comm, shorts, rf, maxopen) ==
    [initial_capital |-> Money(cap), slippage_bps |-> slip, commission |-> Money(comm),
     allow_shorts |-> shorts, apply_rf_on_cash |-> rf, max_open_positions |-> maxopen]

SmallConfigs ==
    { EngineConfig(10, sl, co, sh, rf, mo) :
        sl \in {0, DefaultSlippageBps}, co \in {0, 1}, sh \in BOOLEAN, rf \in BOOLEAN,
        mo \in {1, DefaultMaxOpen} }

Signals == {"BUY", "SELL", "HOLD"}

\* inputs on which run() stops before the simulation: no ticker at all, and
\* tickers whose price frames have no row
NoData == [t \in {} |-> [d \in {} |-> Row(1, 1)]]
EmptyFrames(T) == [t \in T |-> [d \in {} |-> Row(1, 1)]]

\* all_signals, as far as the engine reads it: for each ticker and each date of
\* its frame the signals the strategy may have computed there.  A strategy fed
\* neutral scores gives HOLD everywhere.
AnySignal(d) == [t \in DOMAIN d |-> [x \in DOMAIN d[t] |-> Signals]]
HoldOnly(d) == [t \in DOMAIN d |-> [x \in DOMAIN d[t] |-> {"HOLD"}]]

Scenarios ==
    { [cfg |-> c, pct |-> p, data |-> d, signals |-> AnySignal(d)] :
        c \in SmallConfigs, p \in {Pct(1, 200), Pct(1, 2), Pct(1, 1)},
        d \in {FlatTable, SwingTable, GapTable} }
    \cup
    { [cfg |-> EngineConfig(100000, DefaultSlippageBps, 0, FALSE, FALSE, DefaultMaxOpen),
       pct |-> Pct(1, 20), data |-> HundredTable, signals |-> g] :
        g \in {AnySignal(HundredTable), HoldOnly(HundredTable)} }
    \cup
    { [cfg |-> c, pct |-> Pct(1, 2), data |-> d, signals |-> HoldOnly(d)] :
        c \in SmallConfigs, d \in {FlatTable, SwingTable, GapTable} }
    \cup
    { [cfg |-> EngineConfig(10, DefaultSlippageBps, 0, FALSE, FALSE, DefaultMaxOpen),
       pct |-> Pct(1, 2), data |-> d, signals |-> AnySignal(d)] :
        d \in {NoData, EmptyFrames({"A"}), EmptyFrames(TickerSet)} }

VARIABLES
    cfg,                     \* EngineConfig of the run
    max_position_pct,        \* StrategyConfig.max_position_pct
    data,                    \* ticker -> date -> price row
    all_signals,             \* ticker -> date -> signals the strategy may give
    all_dates,               \* unified sorted date index
    pc,                      \* position in BacktestEngine.run
    raised,                  \* the exception run() ended with, "" for none
    day_idx,                 \* index into all_dates of the current date
    today_prices,            \* ticker -> Close of the current date
    next_prices,             \* ticker -> fill price read for the current date
    day_signals,             \* ticker -> [signal, position_pct] of the current date
    sig_idx,                 \* signals of the current date already processed
    portfolio_val,           \* _execute_trades: mark at the start of the call
    n_open,                  \* _execute_trades: running open-position count
    cash, positions, trades, \* PortfolioState
    daily_portfolio_values, daily_dates,
    ticker_pnl, ticker_dates, \* ticker -> per-date returns and their dates
    eq_curve                 \* BacktestResult.equity_curve: date -> rational

engineVars == <<cfg, max_position_pct, data, all_signals, all_dates, pc, raised, day_idx,
                today_prices, next_prices, day_signals, sig_idx, portfolio_val, n_open,
                cash, positions, trades, daily_portfolio_values, daily_dates,
                ticker_pnl, ticker_dates, eq_curve>>

\* SentimentStrategy.compute_signals on one row
VARIABLES
    strategy_cfg,            \* StrategyConfig: thresholds in 1/ScoreScale, sizes in 1/PctScale
    score,                   \* blended score of the row, in 1/ScoreScale
    signal,                  \* _classify(score), "" before it ran
    size,                    \* position_pct of the row, in 1/PctScale
    strategy_pc

strategyVars == <<strategy_cfg, score, signal, size, strategy_pc>>

\* the result store of backtest/report.py and the last call made on it
VARIABLES
    files,                   \* RESULTS_DIR: run id -> JSON document
    store_op,                \* the last call: its name and arguments
    store_ret,               \* what it returned or raised
    store_calls              \* calls made so far

storeVars == <<files, store_op, store_ret, store_calls>>

\* run_backtest of backtest/runner.py
VARIABLES
    run_args,                \* keyword arguments of the call
    loadable,                \* tickers the data loader finds prices for
    run_pc,
    tickers,                 \* the resolved ticker list
    raw,                     \* tickers of the loaded dict, benchmark popped
    bench_data,              \* whether the benchmark was loaded
    backtest_data,           \* tickers handed to the engine, in order
    run_raised,              \* the exception the call ended with
    engine_called,           \* BacktestEngine.run was entered
    saved                    \* save_result was called

runnerVars == <<run_args, loadable, run_pc, tickers, raw, bench_data, backtest_data,
                run_raised, engine_called, saved>>

\* steps 4 to 6 of BacktestEngine.run: the return series and the summary
VARIABLES
    n_dates,                 \* len(daily_dates)
    bench_days,              \* return days the benchmark has among the run's, -1: no benchmark
    summary_pc,
    port_returns_len,        \* len(port_returns)
    bench_returns_len,       \* len(bench_returns), -1 for None
    summary_keys             \* keys of BacktestResult.summary

summaryVars == <<n_dates, bench_days, summary_pc, port_returns_len, bench_returns_len,
                 summary_keys>>

\* one call of compute_metrics, compute_benchmark_metrics or
\* compute_per_ticker_metrics of backtest/metrics.py
VARIABLES
    returns,                 \* the return series passed (the strategy's)
    benchmark_returns,       \* the second series: the benchmark's, the second ticker's
    metrics_call,            \* the function called
    metrics_ret              \* the list of metric dicts it returned

metricsVars == <<returns, benchmark_returns, metrics_call, metrics_ret>>

\* one call of SentimentStrategy.compute_signals (backtest/strategy.py)
VARIABLES
    signals_cfg,             \* self.cfg
    sentiment,               \* the sentiment series: date -> score
    signals_frame            \* the DataFrame returned: one row per price date

signalsVars == <<signals_cfg, sentiment, signals_frame>>

\* the backtest job of the API server (server.py), the request handlers and
\* the background threads; a request and the thread it starts share a number
VARIABLES
    bt_job,                  \* _bt_job; result None stands for no "result" key
    handler,                 \* request -> where its handler stands
    params,                  \* request -> the parameters it posted
    bg,                      \* request -> where its background thread stands
    ran,                     \* request -> what run_backtest did for it
    results_dir,             \* backtest/results: run id -> saved document
    response                 \* the last answer to a GET

serverVars == <<bt_job, handler, params, bg, ran, results_dir, response>>

moreVars == <<metricsVars, signalsVars, serverVars>>

vars == <<engineVars, strategyVars, storeVars, runnerVars, summaryVars, moreVars>>
notEngineVars == <<strategyVars, storeVars, runnerVars, summaryVars, moreVars>>
notStrategyVars == <<engineVars, storeVars, runnerVars, summaryVars, moreVars>>
notStoreVars == <<engineVars, strategyVars, runnerVars, summaryVars, moreVars>>
notRunnerVars == <<engineVars, strategyVars, storeVars, summaryVars, moreVars>>
notSummaryVars == <<engineVars, strategyVars, storeVars, runnerVars, moreVars>>
notMetricsVars == <<engineVars, strategyVars, storeVars, runnerVars, summaryVars, signalsVars,
                    serverVars>>
notSignalsVars == <<engineVars, strategyVars, storeVars, runnerVars, summaryVars, metricsVars,
                    serverVars>>
notServerVars == <<engineVars, strategyVars, storeVars, runnerVars, summaryVars, metricsVars,
                   signalsVars>>

Empty == [x \in {} |-> 0]

\* tickers = list(data.keys())
TickersOf(d) == SelectSeq(TickerOrder, LAMBDA t : t \in DOMAIN d)

RECURSIVE SortedSeq(_)
SortedSeq(S) ==
    IF S = {} THEN <<>>
    ELSE LET m == CHOOSE x \in S : \A y \in S : x <= y
         IN  <<m>> \o SortedSeq(S \ {m})

\* faulty variant: the per-ticker indexes concatenated, neither merged nor sorted
UnifiedDates_Concatenated(d) ==
    LET tk == TickersOf(d)
        F[i \in 0..Len(tk)] ==
            IF i = 0 THEN <<>> ELSE F[i - 1] \o SortedSeq(DOMAIN d[tk[i]])
    IN  F[Len(tk)]

\* sorted(set(d for t_signals in all_signals.values() for d in t_signals.index))
UnifiedDates(d) == SortedSeq(UNION {DOMAIN d[t] : t \in DOMAIN d})

\* ---------------------------------------------------------- PortfolioState
OpenTickers(pos) == {t \in DOMAIN pos : pos[t].shares # 0}

MarketValue(c, pos, prices) ==
    c + SumOver(DOMAIN pos,
                [t \in DOMAIN pos |->
                    pos[t].shares *
                    (IF t \in DOMAIN prices THEN prices[t]
                     ELSE pos[t].cost \div Max(Abs(pos[t].shares), 1))])

CurrentShares(pos, t) == IF t \in DOMAIN pos THEN pos[t].shares ELSE 0

\* ------------------------------------------------------- _execute_trades
\* x * (1 + slippage_bps / 10000) and x * (1 - slippage_bps / 10000)
SlipUp(x) == MulDiv(x, MoneyScale + cfg.slippage_bps, MoneyScale)
SlipDown(x) == MulDiv(x, MoneyScale - cfg.slippage_bps, MoneyScale)

\* round(x, 2) on an amount in money units (half to even)
RoundCents(x) ==
    LET m == MoneyScale \div 100
        q == x \div m
        r == x % m
    IN  IF 2 * r < m THEN q * m
        ELSE IF 2 * r > m THEN (q + 1) * m
        ELSE IF q % 2 = 0 THEN q * m ELSE (q + 1) * m

\* price = next_prices.get(t) or today_prices.get(t); 0 stands for None
FillPrice(t) ==
    IF t \in DOMAIN next_prices /\ next_prices[t] # 0 THEN next_prices[t]
    ELSE IF t \in DOMAIN today_prices THEN today_prices[t]
    ELSE 0

BuyCapReached(current_shares, open) ==
    /\ current_shares = 0
    /\ cfg.max_open_positions > 0
    /\ open >= cfg.max_open_positions

\* portfolio_val * pos_pct, floored to a money unit (prices are whole units,
\* so the floor changes neither delta_value < price nor int(delta_value / price))
TargetValue(pv, pos_pct) == MulDiv(pv, pos_pct.num, pos_pct.den)

\* faulty variant: the share count is sized at the slippage-adjusted price
SharesToBuy_AtSlippedPrice(delta_value, price) == TruncDiv(delta_value, SlipUp(price))

\* faulty variant: the share count is rounded up to the next whole share
SharesToBuy_RoundedUp(delta_value, price) == TruncDiv(delta_value + price - 1, price)

SharesToBuy(delta_value, price) == TruncDiv(delta_value, price)

BuyCost(shares, price) == SlipUp(shares * price) + cfg.commission

\* int(state.cash / (price * (1 + slippage_bps / 10000)))
AffordableShares(c, price) ==
    LET g == GCD(MoneyScale, price)
    IN  TruncDiv(c * (MoneyScale \div g), (price \div g) * (MoneyScale + cfg.slippage_bps))

\* faulty variant: slippage is added to the proceeds instead of deducted
SellProceeds_SlippageAdded(shares, price) == SlipUp(shares * price) - cfg.commission

SellProceeds(shares, price) == SlipDown(shares * price) - cfg.commission

\* faulty variant: the short is rounded up to the next whole share
SharesToShort_RoundedUp(target_value, price) == TruncDiv(target_value + price - 1, price)

SharesToShort(target_value, price) == TruncDiv(target_value, price)

Trade(date, t, action, shares, price) ==
    [date |-> date, ticker |-> t, action |-> action, shares |-> shares,
     price |-> price, value |-> RoundCents(shares * price)]

Put(f, k, v) == [x \in DOMAIN f \cup {k} |-> IF x = k THEN v ELSE f[x]]

\* n_open after a BUY filled for t
OpenCountAfterBuy(st, t) == IF t \notin DOMAIN st.positions THEN st.n_open + 1 ELSE st.n_open

\* faulty variant: the share count cut down to the cash at hand is not tested
\* again, so a purchase of no share is logged
ExecBuy_LogsEmptyFill(st, t, pos_pct, price, date) ==
    LET current_shares == CurrentShares(st.positions, t)
        target_value == TargetValue(portfolio_val, pos_pct)
        current_value == current_shares * price
        delta_value == target_value - current_value
        wanted == SharesToBuy(delta_value, price)
        shares_to_buy ==
            IF BuyCost(wanted, price) > st.cash THEN AffordableShares(st.cash, price)
            ELSE wanted
        held == current_shares + shares_to_buy
    IN  IF BuyCapReached(current_shares, st.n_open) THEN st
        ELSE IF delta_value < price THEN st
        ELSE IF wanted <= 0 THEN st
        ELSE [cash |-> st.cash - BuyCost(shares_to_buy, price),
              positions |-> Put(st.positions, t, [shares |-> held, cost |-> held * price]),
              trades |-> Append(st.trades, Trade(date, t, "BUY", shares_to_buy, price)),
              n_open |-> OpenCountAfterBuy(st, t)]

\* st = [cash, positions, trades, n_open]: the state the loop body works on
ExecBuy(st, t, pos_pct, price, date) ==
    LET current_shares == CurrentShares(st.positions, t)
        target_value == TargetValue(portfolio_val, pos_pct)
        current_value == current_shares * price
        delta_value == target_value - current_value
        wanted == SharesToBuy(delta_value, price)
        shares_to_buy ==
            IF BuyCost(wanted, price) > st.cash THEN AffordableShares(st.cash, price)
            ELSE wanted
        held == current_shares + shares_to_buy
    IN  IF BuyCapReached(current_shares, st.n_open) THEN st
        ELSE IF delta_value < price THEN st
        ELSE IF wanted <= 0 THEN st
        ELSE IF shares_to_buy <= 0 THEN st
        ELSE [cash |-> st.cash - BuyCost(shares_to_buy, price),
              positions |-> Put(st.positions, t, [shares |-> held, cost |-> held * price]),
              trades |-> Append(st.trades, Trade(date, t, "BUY", shares_to_buy, price)),
              n_open |-> OpenCountAfterBuy(st, t)]

CloseLong(st, t, price, date) ==
    LET current_shares == CurrentShares(st.positions, t)
    IN  [cash |-> st.cash + SellProceeds(current_shares, price),
         positions |-> Put(st.positions, t, [shares |-> 0, cost |-> 0]),
         trades |-> Append(st.trades, Trade(date, t, "SELL", current_shares, price)),
         n_open |-> st.n_open - 1]

OpenShort(st, t, pos_pct, price, date) ==
    LET target_value == TargetValue(portfolio_val, pos_pct)
        shares_to_short == SharesToShort(target_value, price)
    IN  IF shares_to_short <= 0 THEN st
        ELSE [cash |-> st.cash + SellProceeds(shares_to_short, price),
              positions |-> Put(st.positions, t,
                                [shares |-> -shares_to_short, cost |-> price * shares_to_short]),
              trades |-> Append(st.trades, Trade(date, t, "SHORT", shares_to_short, price)),
              n_open |-> st.n_open + 1]

\* faulty variant: a short is opened whether or not shorts are allowed
ExecSell_IgnoresAllowShorts(st, t, pos_pct, price, date) ==
    LET current_shares == CurrentShares(st.positions, t)
    IN  IF current_shares > 0 THEN CloseLong(st, t, price, date)
        ELSE IF current_shares = 0 THEN OpenShort(st, t, pos_pct, price, date)
        ELSE st

ExecSell(st, t, pos_pct, price, date) ==
    LET current_shares == CurrentShares(st.positions, t)
    IN  IF current_shares > 0 THEN CloseLong(st, t, price, date)
        ELSE IF cfg.allow_shorts /\ current_shares = 0 THEN OpenShort(st, t, pos_pct, price, date)
        ELSE st

\* one iteration of "for t, sig in signals.items()"
ExecuteSignal(st, t, sig, date) ==
    LET price == FillPrice(t)
    IN  IF price <= 0 THEN st
        ELSE IF sig.signal = "BUY" THEN ExecBuy(st, t, sig.position_pct, price, date)
        ELSE IF sig.signal = "SELL" THEN ExecSell(st, t, sig.position_pct, price, date)
        ELSE st

\* ------------------------------------------------------------ strategy
\* _position_sizes with size_by_conviction off
UniformSize(s) == IF s # "HOLD" THEN max_position_pct ELSE Pct(0, 1)

\* ----------------------------------------------------- BacktestEngine.run
\* state.cash *= (1 + RISK_FREE_RATE_DAILY), floored to a money unit
AccrueRf(c) == c + MulDiv(c, RfAnnualNum, RfAnnualDen * TRADING_DAYS_PER_YEAR)

\* order of day_signals.items(): the tickers of data that have a row today
DayOrder(sigs) == SelectSeq(TickersOf(data), LAMBDA t : t \in DOMAIN sigs)

\* value_series.pct_change(): the return of date i + 1 over date i
\* (x / 0 is +-inf, 0 / 0 is NaN)
PctChange(prev, cur) ==
    IF prev = 0 THEN [num |-> Sign(cur), den |-> 0] ELSE Rat(cur - prev, prev)

\* port_returns = value_series.pct_change().dropna(): the first date has no
\* return, and NaN returns are dropped
PortReturns(values, dates) ==
    SelectSeq([i \in 1..(Len(values) - 1) |->
                  [date |-> dates[i + 1], ret |-> PctChange(values[i], values[i + 1])]],
              LAMBDA e : ~IsNaN(e.ret))

\* (1 + returns).cumprod() at position k
RECURSIVE CumProd(_, _)
CumProd(rets, k) ==
    IF k = 1 THEN RatAddOne(rets[1].ret)
    ELSE RatMul(CumProd(rets, k - 1), RatAddOne(rets[k].ret))

\* equity_curve(port_returns, initial_capital): each value is capital * growth
EquityCurve(rets, capital) ==
    [d \in {rets[k].date : k \in 1..Len(rets)} |->
        LET k == CHOOSE j \in 1..Len(rets) : rets[j].date = d
        IN  [capital |-> capital, growth |-> CumProd(rets, k)]]

\* an equity-curve entry is the amount v
EquityIs(e, v) == e.growth.den # 0 /\ Rat(e.capital, v) = Rat(e.growth.den, e.growth.num)

\* data[t]["prices"]["Close"].shift(1) at date: the Close of the ticker's previous
\* row; 0 stands for the NaN of its first row
PrevClose(t, date) ==
    LET earlier == {d \in DOMAIN data[t] : d < date}
        last == CHOOSE d \in earlier : \A e \in earlier : e <= d
    IN  IF earlier = {} THEN 0 ELSE data[t][last].Close

\* what the per-ticker loop appends for ticker t on date: the close-to-close
\* return when state.positions holds shares of t, 0.0 otherwise
TickerReturn(t, date, pos, prices) ==
    IF CurrentShares(pos, t) # 0
    THEN Rat(prices[t] - PrevClose(t, date), PrevClose(t, date))
    ELSE Rat(0, 1)

\* tickers that get an entry on date
Attributed(date, prices) == {t \in DOMAIN data : t \in DOMAIN prices /\ PrevClose(t, date) > 0}

\* faulty variant: a date on which some asset has no row is skipped for all
Quoted_OnlyOnFullDates(d, date) ==
    IF \A t \in DOMAIN d : date \in DOMAIN d[t] THEN DOMAIN d ELSE {}

\* the tickers with a price row (and so a signal row) on date
Quoted(d, date) == {t \in DOMAIN d : date \in DOMAIN d[t]}

\* BacktestEngine as constructed with the arguments of scenario sc; run(data)
\* not yet entered
EngineInit(sc) ==
    /\ cfg = sc.cfg
    /\ max_position_pct = sc.pct
    /\ data = sc.data
    /\ all_signals = sc.signals
    /\ all_dates = <<>>
    /\ pc = "start"
    /\ raised = ""
    /\ day_idx = 0
    /\ today_prices = Empty
    /\ next_prices = Empty
    /\ day_signals = Empty
    /\ sig_idx = 0
    /\ portfolio_val = 0
    /\ n_open = 0
    /\ cash = 0
    /\ positions = Empty
    /\ trades = <<>>
    /\ daily_portfolio_values = <<>>
    /\ daily_dates = <<>>
    /\ ticker_pnl = Empty
    /\ ticker_dates = Empty
    /\ eq_curve = Empty

\* the parts of the program a specification does not exercise stay as they are
\* before their entry point is called
EngineIdle ==
    EngineInit([cfg |-> EngineConfig(10, DefaultSlippageBps, 0, FALSE, FALSE, DefaultMaxOpen),
                pct |-> Pct(1, 20), data |-> NoData, signals |-> AnySignal(NoData)])

StrategyIdle ==
    /\ strategy_cfg = [buy_threshold |-> 0, sell_threshold |-> 0, min_position_pct |-> 0,
                       max_position_pct |-> 0, size_by_conviction |-> FALSE]
    /\ score = 0
    /\ signal = ""
    /\ size = 0
    /\ strategy_pc = "idle"

NoCall == [op |-> "none"]

\* RESULTS_DIR as created, nothing saved
StoreIdle ==
    /\ files = Empty
    /\ store_op = NoCall
    /\ store_ret = NoCall
    /\ store_calls = 0

NoException == [exc |-> "", about |-> ""]

RunArgs(given, list, sector, save) ==
    [tickers_given |-> given, tickers |-> list, sector |-> sector,
     benchmark_ticker |-> "SPY", save_results |-> save]

\* run_backtest not called
RunnerInit(args, found) ==
    /\ run_args = args
    /\ loadable = found
    /\ run_pc = "start"
    /\ tickers = <<>>
    /\ raw = {}
    /\ bench_data = FALSE
    /\ backtest_data = <<>>
    /\ run_raised = NoException
    /\ engine_called = FALSE
    /\ saved = FALSE

RunnerIdle == RunnerInit(RunArgs(FALSE, <<>>, "", FALSE), {})

\* the simulation loop has left n dates, the benchmark has b return days
SummaryInit(n, b) ==
    /\ n_dates = n
    /\ bench_days = b
    /\ summary_pc = "simulated"
    /\ port_returns_len = 0
    /\ bench_returns_len = -1
    /\ summary_keys = {}

SummaryIdle == SummaryInit(0, -1)

\* no metrics function called on the series r and b
MetricsInit(r, b) ==
    /\ returns = r
    /\ benchmark_returns = b
    /\ metrics_call = ""
    /\ metrics_ret = <<>>

MetricsIdle == MetricsInit(<<>>, <<>>)

\* compute_signals not called; c is the configuration, s the series
SignalsInit(c, s) ==
    /\ signals_cfg = c
    /\ sentiment = s
    /\ signals_frame = <<>>

SignalsIdle == SignalsInit(Empty, Empty)

MaxRequests == 2
Requests == 1..MaxRequests

\* _bt_job as the module creates it
IdleJob == [status |-> "idle", progress |-> "", error |-> None, run_id |-> None,
            result |-> None]
NoParams == [route |-> "", run_id |-> ""]
NotRun == [saved_as |-> "", raised |-> None]
NoResponse == [route |-> "", code |-> 0, job |-> IdleJob, result |-> None]

\* the server as started: no request yet
ServerInit ==
    /\ bt_job = IdleJob
    /\ handler = [r \in Requests |-> "none"]
    /\ params = [r \in Requests |-> NoParams]
    /\ bg = [r \in Requests |-> "none"]
    /\ ran = [r \in Requests |-> NotRun]
    /\ results_dir = Empty
    /\ response = NoResponse

MoreIdle == MetricsIdle /\ SignalsIdle /\ ServerInit

Init ==
    /\ \E sc \in Scenarios : EngineInit(sc)
    /\ StrategyIdle /\ StoreIdle /\ RunnerIdle /\ SummaryIdle /\ MoreIdle

\* faulty variant: only the empty dict is rejected
InputError_DictOnly(d) ==
    IF DOMAIN d = {} THEN "ValueError: data dict is empty" ELSE ""

\* the exception run(data) stops with before the simulation, "" for none
InputError(d) ==
    IF DOMAIN d = {} THEN "ValueError: data dict is empty"
    ELSE IF UnifiedDates(d) = <<>> THEN "ValueError: No valid trading dates found"
    ELSE ""

\* run() up to the loop: the two input checks, then the PortfolioState and the
\* empty histories
StartRun ==
    /\ pc = "start"
    /\ IF InputError(data) # ""
       THEN /\ raised' = InputError(data)
            /\ pc' = "error"
            /\ UNCHANGED <<all_dates, cash, ticker_pnl, ticker_dates>>
       ELSE /\ all_dates' = UnifiedDates(data)
            /\ cash' = cfg.initial_capital
            /\ ticker_pnl' = [t \in DOMAIN data |-> <<>>]
            /\ ticker_dates' = [t \in DOMAIN data |-> <<>>]
            /\ pc' = "begin"
            /\ UNCHANGED raised
    /\ UNCHANGED <<cfg, max_position_pct, data, all_signals, day_idx, today_prices,
                   next_prices, day_signals, sig_idx, portfolio_val, n_open, positions,
                   trades, daily_portfolio_values, daily_dates, eq_curve>>
    /\ UNCHANGED notEngineVars

\* top of the loop body: prices, risk-free accrual, the day's signals, and the
\* first two statements of _execute_trades
BeginDay ==
    /\ pc = "begin"
    /\ day_idx < Len(all_dates)
    /\ LET date == all_dates[day_idx + 1]
           have == Quoted(data, date)
           accrued == IF cfg.apply_rf_on_cash THEN AccrueRf(cash) ELSE cash
           closes == [t \in have |-> data[t][date].Close]
       IN  /\ day_idx' = day_idx + 1
           /\ today_prices' = closes
           /\ next_prices' = [t \in have |-> data[t][date].Open]
           /\ cash' = accrued
           /\ \E sigs \in [have -> Signals] :
                 /\ \A t \in have : sigs[t] \in all_signals[t][date]
                 /\ day_signals' = [t \in have |->
                                    [signal |-> sigs[t], position_pct |-> UniformSize(sigs[t])]]
           /\ portfolio_val' = MarketValue(accrued, positions, closes)
           /\ n_open' = Cardinality(OpenTickers(positions))
    /\ sig_idx' = 0
    /\ pc' = "trade"
    /\ UNCHANGED <<cfg, max_position_pct, data, all_signals, all_dates, raised, positions,
                   trades, daily_portfolio_values, daily_dates, ticker_pnl, ticker_dates,
                   eq_curve>>
    /\ UNCHANGED notEngineVars

TradeStep ==
    /\ pc = "trade"
    /\ sig_idx < Len(DayOrder(day_signals))
    /\ LET t == DayOrder(day_signals)[sig_idx + 1]
           st == [cash |-> cash, positions |-> positions, trades |-> trades, n_open |-> n_open]
           nx == ExecuteSignal(st, t, day_signals[t], all_dates[day_idx])
       IN  /\ cash' = nx.cash
           /\ positions' = nx.positions
           /\ trades' = nx.trades
           /\ n_open' = nx.n_open
    /\ sig_idx' = sig_idx + 1
    /\ UNCHANGED <<cfg, max_position_pct, data, all_signals, all_dates, pc, raised, day_idx,
                   today_prices, next_prices, day_signals, portfolio_val,
                   daily_portfolio_values, daily_dates, ticker_pnl, ticker_dates, eq_curve>>
    /\ UNCHANGED notEngineVars

\* the mark of the date and the per-ticker returns that follow it
MarkToMarket ==
    /\ pc = "trade"
    /\ sig_idx = Len(DayOrder(day_signals))
    /\ daily_portfolio_values' =
           Append(daily_portfolio_values, MarketValue(cash, positions, today_prices))
    /\ daily_dates' = Append(daily_dates, all_dates[day_idx])
    /\ LET date == all_dates[day_idx]
           got == Attributed(date, today_prices)
       IN  /\ ticker_pnl' = [t \in DOMAIN ticker_pnl |->
                                IF t \in got
                                THEN Append(ticker_pnl[t],
                                            TickerReturn(t, date, positions, today_prices))
                                ELSE ticker_pnl[t]]
           /\ ticker_dates' = [t \in DOMAIN ticker_dates |->
                                  IF t \in got THEN Append(ticker_dates[t], date)
                                  ELSE ticker_dates[t]]
    /\ pc' = IF day_idx = Len(all_dates) THEN "build" ELSE "begin"
    /\ UNCHANGED <<cfg, max_position_pct, data, all_signals, all_dates, raised, day_idx,
                   today_prices, next_prices, day_signals, sig_idx, portfolio_val, n_open,
                   cash, positions, trades, eq_curve>>
    /\ UNCHANGED notEngineVars

BuildResult ==
    /\ pc = "build"
    /\ eq_curve' = EquityCurve(PortReturns(daily_portfolio_values, daily_dates),
                                cfg.initial_capital)
    /\ pc' = "done"
    /\ UNCHANGED <<cfg, max_position_pct, data, all_signals, all_dates, raised, day_idx,
                   today_prices, next_prices, day_signals, sig_idx, portfolio_val, n_open,
                   cash, positions, trades, daily_portfolio_values, daily_dates,
                   ticker_pnl, ticker_dates>>
    /\ UNCHANGED notEngineVars

Next == StartRun \/ BeginDay \/ TradeStep \/ MarkToMarket \/ BuildResult

Spec == Init /\ [][Next]_vars

\* ------------------------------------------------------------------------
\* properties of the engine
InLoop == pc = "trade" /\ sig_idx < Len(DayOrder(day_signals))
CurTicker == DayOrder(day_signals)[sig_idx + 1]
CurSignal == day_signals[CurTicker]
CurPrice == next_prices[CurTicker]
CurShares == IF CurTicker \in DOMAIN positions THEN positions[CurTicker].shares ELSE 0
SignalStep(sig) == InLoop /\ CurSignal.signal = sig /\ sig_idx' = sig_idx + 1
Today == all_dates[day_idx]
LastTrade == trades[Len(trades)]
HeldNonZero == {t \in DOMAIN positions : positions[t].shares # 0}

\* C1: portfolio cash is >= 0 after every executed trade and at every
\* mark-to-market, whatever the signals, slippage and commission.
C1_CashNeverNegative == cash >= 0

\* C2: for every trading date of the run the returned equity curve has a value,
\* and it equals the mark-to-market value computed for that date.
C2_EquityCurveIsMarkToMarket ==
    pc = "done" =>
        \A i \in 1..Len(daily_dates) :
            /\ daily_dates[i] \in DOMAIN eq_curve
            /\ EquityIs(eq_curve[daily_dates[i]], daily_portfolio_values[i])

\* C3: a trade triggered by the signal dated d is filled at the Open of the
\* asset's next trading date, or at d's Close when d is its last date.
C3_FilledAtNextOpen ==
    \A i \in 1..Len(trades) :
        LET tr == trades[i]
            later == {d \in DOMAIN data[tr.ticker] : d > tr.date}
            nxt == CHOOSE d \in later : \A e \in later : d <= e
        IN  IF later # {} THEN tr.price = data[tr.ticker][nxt].Open
            ELSE tr.price = data[tr.ticker][tr.date].Close

\* C5: with shorts disabled and a cap max_open_positions > 0, the number of
\* tickers holding non-zero shares never exceeds the cap.
C5_OpenPositionsWithinCap ==
    (~cfg.allow_shorts /\ cfg.max_open_positions > 0) =>
        Cardinality(HeldNonZero) <= cfg.max_open_positions

\* C4: the loop visits the union of the assets' dates in strictly increasing
\* order, each once; a date begins with the risk-free accrual, then its trades
\* are applied (at most one per asset, dated that date), and only then is the
\* date marked to market and appended to the value history.
C4_DatesInOrder ==
    /\ \A i \in 1..(Len(all_dates) - 1) : all_dates[i] < all_dates[i + 1]
    /\ pc # "start" =>
          {all_dates[i] : i \in 1..Len(all_dates)} = UNION {DOMAIN data[t] : t \in DOMAIN data}
    /\ daily_dates = SubSeq(all_dates, 1, Len(daily_dates))
    /\ Len(daily_portfolio_values) = Len(daily_dates)
    /\ Len(daily_dates) = IF pc = "trade" THEN day_idx - 1 ELSE day_idx
    /\ pc \in {"build", "done"} => daily_dates = all_dates
    /\ \A i, j \in 1..Len(trades) :
          i < j => /\ trades[i].date <= trades[j].date
                   /\ ~(trades[i].date = trades[j].date /\ trades[i].ticker = trades[j].ticker)

C4_StepOrder ==
    /\ day_idx' # day_idx =>
          /\ day_idx' = day_idx + 1
          /\ cash' = IF cfg.apply_rf_on_cash
                     THEN cash + MulDiv(cash, RfAnnualNum, RfAnnualDen * TRADING_DAYS_PER_YEAR)
                     ELSE cash
          /\ UNCHANGED <<positions, trades, daily_dates, daily_portfolio_values>>
          /\ \A i \in 1..Len(trades) : trades[i].date < all_dates[day_idx']
    /\ trades' # trades =>
          /\ Len(daily_dates) = day_idx - 1
          /\ UNCHANGED <<day_idx, daily_dates, daily_portfolio_values>>
          /\ Len(trades') = Len(trades) + 1
          /\ SubSeq(trades', 1, Len(trades)) = trades
          /\ trades'[Len(trades')].date = all_dates[day_idx]
    /\ daily_dates' # daily_dates =>
          /\ sig_idx = Cardinality({t \in DOMAIN data : all_dates[day_idx] \in DOMAIN data[t]})
          /\ daily_dates' = Append(daily_dates, all_dates[day_idx])
          /\ daily_portfolio_values' =
                 Append(daily_portfolio_values, MarketValue(cash, positions, today_prices))
          /\ UNCHANGED <<day_idx, cash, positions, trades>>

C4_WalkForwardOrder == [](C4_DatesInOrder) /\ [][C4_StepOrder]_vars

C4_Witness ==
    /\ pc = "done"
    /\ cfg.apply_rf_on_cash
    /\ Len(trades) >= 2
    /\ \E t \in DOMAIN data : DOMAIN data[t] # {all_dates[i] : i \in 1..Len(all_dates)}

\* the scenario of C6: one asset at 100, capital 100000, fraction 0.05, 5 bps,
\* no commission, no accrual, BUY on the first date, just after that signal
C6_ScenarioAfterBuy ==
    /\ cfg.initial_capital = Money(100000)
    /\ cfg.slippage_bps = 5 /\ cfg.commission = 0 /\ ~cfg.apply_rf_on_cash
    /\ max_position_pct = Pct(1, 20)
    /\ TickersOf(data) = <<"A">>
    /\ pc = "trade" /\ day_idx = 1 /\ sig_idx = 1
    /\ next_prices["A"] = Money(100)
    /\ day_signals["A"].signal = "BUY"

\* what a filled BUY bought, and the figures its size is computed from
C6_Bought == trades'[Len(trades')].shares
C6_Delta == MulDiv(portfolio_val, CurSignal.position_pct.num, CurSignal.position_pct.den)
                - CurShares * CurPrice
\* price * (1 + slippage) in money units (prices are whole currency units)
C6_SlippedPrice == (CurPrice \div MoneyScale) * (MoneyScale + cfg.slippage_bps)
C6_CostOf(n) == MulDiv(n * CurPrice, MoneyScale + cfg.slippage_bps, MoneyScale) + cfg.commission
C6_FilledBuy == SignalStep("BUY") /\ Len(trades') = Len(trades) + 1

\* C6 (as claimed): BUY sizing uses the slippage-adjusted price: the scenario
\* buys floor(5000/100.05) = 49 shares and leaves cash 95102.55, and in general
\* sharesToBuy = floor(delta / (price * (1 + slippage))).
C6_SizedAtSlippedPrice ==
    /\ [](C6_ScenarioAfterBuy =>
             /\ Len(trades) = 1 /\ trades[1].shares = 49
             /\ cash = Money(100000) - 49 * 1000500)
    /\ [][C6_FilledBuy => C6_Bought = C6_Delta \div C6_SlippedPrice]_vars

\* C6 (amended): BUY sizing uses the unadjusted fill price: the scenario buys
\* floor(5000/100) = 50 shares and leaves cash 100000 - 50 * 100.05 = 94997.50;
\* in general sharesToBuy = floor(delta / price), replaced by
\* floor(cash / (price * (1 + slippage))) only when its cost exceeds cash.
C6_SizedAtFillPrice ==
    /\ [](C6_ScenarioAfterBuy =>
             /\ Len(trades) = 1 /\ trades[1].shares = 50
             /\ cash = Money(100000) - 50 * 1000500)
    /\ [][C6_FilledBuy =>
             C6_Bought = IF C6_CostOf(C6_Delta \div CurPrice) > cash
                         THEN cash \div C6_SlippedPrice
                         ELSE C6_Delta \div CurPrice]_vars

C6_Witness == C6_ScenarioAfterBuy /\ Len(trades) = 1 /\ positions["A"].shares = 50

\* a run whose signals are all HOLD, with the risk-free accrual off
AllHold ==
    \A t \in DOMAIN all_signals : \A d \in DOMAIN all_signals[t] : all_signals[t][d] = {"HOLD"}
C11_HoldRun == AllHold /\ ~cfg.apply_rf_on_cash /\ pc \notin {"start", "error"}

\* the parts of C11 that do not read the first date of the equity curve
C11_HoldStepChangesNothing ==
    [][SignalStep("HOLD") => UNCHANGED <<cash, positions, trades, n_open>>]_vars
C11_HoldRunIsFlat ==
    C11_HoldRun =>
        /\ trades = <<>>
        /\ cash = cfg.initial_capital
        /\ \A i \in 1..Len(daily_portfolio_values) :
              daily_portfolio_values[i] = cfg.initial_capital
        /\ \A d \in DOMAIN eq_curve : EquityIs(eq_curve[d], cfg.initial_capital)

\* C11: a HOLD signal changes neither cash, nor any position, nor the trade
\* log; in a run whose signals are all HOLD, without accrual, the trade log is
\* empty and on every date of the run both the portfolio value and the equity
\* curve equal initial_capital.
C11_HoldPlacesNoOrder ==
    /\ C11_HoldStepChangesNothing
    /\ [](C11_HoldRunIsFlat)
    /\ []((C11_HoldRun /\ pc = "done") =>
             \A i \in 1..Len(daily_dates) :
                 /\ daily_dates[i] \in DOMAIN eq_curve
                 /\ EquityIs(eq_curve[daily_dates[i]], cfg.initial_capital))

\* shares of t held at the end of the last date before d, replayed from the log
RECURSIVE NetShares(_, _, _)
NetShares(log, t, d) ==
    IF log = <<>> THEN 0
    ELSE LET tr == log[Len(log)]
             rest == NetShares(SubSeq(log, 1, Len(log) - 1), t, d)
         IN  IF tr.ticker # t \/ tr.date >= d THEN rest
             ELSE IF tr.action = "BUY" THEN rest + tr.shares
             ELSE rest - tr.shares

MarkStep == pc = "trade" /\ daily_dates' # daily_dates

\* C12: on each date t an asset's return series gets the close-to-close return
\* of t if its position was non-zero at the end of the prior trading day and 0
\* otherwise; the position resulting from the trades of t itself does not
\* decide it.
C12_ReturnOfPriorPosition ==
    [][MarkStep =>
          \A t \in DOMAIN data :
              Len(ticker_pnl'[t]) > Len(ticker_pnl[t]) =>
                  ticker_pnl'[t][Len(ticker_pnl'[t])] =
                      IF NetShares(trades, t, Today) # 0
                      THEN Rat(today_prices[t] - PrevClose(t, Today), PrevClose(t, Today))
                      ELSE Rat(0, 1)]_vars

\* the date being processed after a step, 0 before the first date
DateAfterStep == IF day_idx' = 0 THEN 0 ELSE all_dates'[day_idx']
HasRow(t, d) == d \in DOMAIN data[t]
SamePosition(t) ==
    /\ (t \in DOMAIN positions') = (t \in DOMAIN positions)
    /\ t \in DOMAIN positions => positions'[t] = positions[t]

\* C13: on a date for which an asset has no price row that asset alone is
\* skipped: no trade is logged for it, its shares and cost basis stay as they
\* are and no error is raised, while every asset that has a row gets its signal
\* processed and its Close into the mark; on its next date with a row the asset
\* has a signal and a fill price again.
C13_NoTradeWithoutRow ==
    /\ \A i \in 1..Len(trades) : HasRow(trades[i].ticker, trades[i].date)
    /\ InputError(data) = "" => (raised = "" /\ pc # "error")
    /\ pc = "trade" =>
          /\ DOMAIN day_signals = {t \in DOMAIN data : HasRow(t, Today)}
          /\ DOMAIN today_prices = {t \in DOMAIN data : HasRow(t, Today)}
          /\ \A t \in DOMAIN day_signals :
                /\ next_prices[t] = data[t][Today].Open
                /\ today_prices[t] = data[t][Today].Close

C13_StepSkipsMissing ==
    /\ \A t \in DOMAIN data :
          (DateAfterStep # 0 /\ ~HasRow(t, DateAfterStep)) => SamePosition(t)
    /\ MarkStep =>
          /\ sig_idx = Cardinality({t \in DOMAIN data : HasRow(t, Today)})
          /\ daily_portfolio_values'[Len(daily_portfolio_values')] =
                 cash + SumOver(DOMAIN positions,
                                [t \in DOMAIN positions |->
                                    IF HasRow(t, Today)
                                    THEN positions[t].shares * data[t][Today].Close
                                    ELSE positions[t].shares *
                                         (positions[t].cost \div Max(Abs(positions[t].shares), 1))])

C13_MissingRowSkipsAssetOnly == [](C13_NoTradeWithoutRow) /\ [][C13_StepSkipsMissing]_vars

\* an asset bought before its gap, another asset traded on the gap date, and
\* the first asset traded again on its next date
C13_Witness ==
    \E t, u \in DOMAIN data : \E i, j, k \in 1..Len(trades) :
        /\ t # u /\ i < j /\ j < k
        /\ trades[i].ticker = t /\ trades[j].ticker = u /\ trades[k].ticker = t
        /\ trades[i].date < trades[j].date /\ trades[j].date < trades[k].date
        /\ ~HasRow(t, trades[j].date)
        /\ \A d \in DOMAIN data[t] : ~(trades[i].date < d /\ d < trades[k].date)

\* C14: run raises ValueError when the data dict is empty or when the unified
\* date index has no dates; the error comes before a PortfolioState exists and
\* before any cash, position or trade-log change, and no result is produced.
C14_NoDates == \A t \in DOMAIN data : DOMAIN data[t] = {}
C14_ErrorState ==
    /\ pc = "error" =>
          /\ raised = IF DOMAIN data = {} THEN "ValueError: data dict is empty"
                      ELSE "ValueError: No valid trading dates found"
          /\ cash = 0 /\ positions = Empty /\ trades = <<>>
          /\ daily_portfolio_values = <<>> /\ daily_dates = <<>>
          /\ ticker_pnl = Empty /\ eq_curve = Empty
    /\ pc # "start" => (pc = "error") = C14_NoDates
    /\ pc # "error" => raised = ""

C14_ErrorStep ==
    /\ pc' = "error" => (pc = "start" /\ UNCHANGED <<cash, positions, trades, eq_curve>>)
    /\ pc = "error" => UNCHANGED vars

C14_EmptyInputRaises == [](C14_ErrorState) /\ [][C14_ErrorStep]_vars

C14_Witness ==
    /\ pc = "error"
    /\ DOMAIN data # {}
    /\ raised = "ValueError: No valid trading dates found"

\* the ticker whose signal was processed last, and whether it traded today
PrevTicker == DayOrder(day_signals)[sig_idx]
AfterSignal(sig) == pc = "trade" /\ sig_idx >= 1 /\ day_signals[PrevTicker].signal = sig
TradedToday(t) == \E i \in 1..Len(trades) : trades[i].date = Today /\ trades[i].ticker = t

\* C8: a SELL on a long position closes all of it: the ticker then holds 0
\* shares, cash grows by shares*price*(1-slippage) - commission, one SELL trade
\* for the full share count is appended and the open count drops by one.
C8_SellClosesLong ==
    [][(SignalStep("SELL") /\ CurShares > 0) =>
          /\ positions'[CurTicker].shares = 0
          /\ cash' = cash + MulDiv(CurShares * CurPrice, MoneyScale - cfg.slippage_bps,
                                   MoneyScale) - cfg.commission
          /\ Len(trades') = Len(trades) + 1
          /\ SubSeq(trades', 1, Len(trades)) = trades
          /\ trades'[Len(trades')].action = "SELL"
          /\ trades'[Len(trades')].ticker = CurTicker
          /\ trades'[Len(trades')].shares = CurShares
          /\ n_open' = n_open - 1
          /\ \A t \in DOMAIN positions \ {CurTicker} : positions'[t] = positions[t]]_vars

C8_Witness ==
    /\ AfterSignal("SELL")
    /\ cfg.slippage_bps > 0 /\ cfg.commission > 0
    /\ trades # <<>> /\ LastTrade.action = "SELL"
    /\ LastTrade.date = Today /\ LastTrade.ticker = PrevTicker
    /\ LastTrade.shares > 1
    /\ positions[PrevTicker].shares = 0

\* C9: a SELL on a ticker with no position while shorts are not allowed
\* changes neither cash, nor any position, nor the trade log.
C9_SellWithoutPositionNoOp ==
    [][(SignalStep("SELL") /\ CurShares = 0 /\ ~cfg.allow_shorts) =>
          UNCHANGED <<cash, positions, trades, n_open>>]_vars

C9_Witness ==
    /\ AfterSignal("SELL")
    /\ ~cfg.allow_shorts
    /\ CurrentShares(positions, PrevTicker) = 0
    /\ ~TradedToday(PrevTicker)
    /\ trades # <<>>

\* C10: a SELL on a ticker with no position while shorts are allowed opens a
\* short of n = floor(portfolioValue*positionFraction/price) shares when n >= 1
\* (position -n, cost basis n*price, cash + n*price*(1-slippage) - commission,
\* one trade logged, open count + 1) and changes nothing when n = 0.
C10_ShortSize ==
    MulDiv(portfolio_val, CurSignal.position_pct.num, CurSignal.position_pct.den) \div CurPrice

C10_SellOpensShort ==
    [][(SignalStep("SELL") /\ CurShares = 0 /\ cfg.allow_shorts) =>
          IF C10_ShortSize >= 1
          THEN /\ positions'[CurTicker] =
                     [shares |-> -C10_ShortSize, cost |-> C10_ShortSize * CurPrice]
               /\ cash' = cash + MulDiv(C10_ShortSize * CurPrice,
                                        MoneyScale - cfg.slippage_bps, MoneyScale)
                               - cfg.commission
               /\ Len(trades') = Len(trades) + 1
               /\ SubSeq(trades', 1, Len(trades)) = trades
               /\ trades'[Len(trades')].ticker = CurTicker
               /\ trades'[Len(trades')].shares = C10_ShortSize
               /\ n_open' = n_open + 1
          ELSE UNCHANGED <<cash, positions, trades, n_open>>]_vars

C10_Witness ==
    /\ AfterSignal("SELL")
    /\ cfg.allow_shorts
    /\ trades # <<>> /\ LastTrade.action = "SHORT"
    /\ LastTrade.date = Today /\ LastTrade.ticker = PrevTicker
    /\ positions[PrevTicker].shares = -LastTrade.shares
    /\ cfg.slippage_bps > 0

\* the target of the BUY being processed: the mark taken before the day's
\* trades times the position fraction of the signal
C25_Target == TargetValue(portfolio_val, CurSignal.position_pct)

\* C25: after an executed BUY the shares held of the ticker, at the fill
\* price, are worth at most portfolioValue * positionFraction, portfolioValue
\* being the mark taken at the start of the day's trade execution; a BUY whose
\* target less the current position value is below the price of one share is
\* skipped: cash, positions and the trade log stay as they are.
C25_BuyNeverOvershoots ==
    [][SignalStep("BUY") =>
          /\ trades' # trades =>
                 CurrentShares(positions', CurTicker) * CurPrice <= C25_Target
          /\ C25_Target - CurShares * CurPrice < CurPrice =>
                 UNCHANGED <<cash, positions, trades>>]_vars

\* a BUY that added to a position already held
C25_Witness ==
    /\ AfterSignal("BUY")
    /\ trades # <<>> /\ LastTrade.action = "BUY"
    /\ LastTrade.date = Today /\ LastTrade.ticker = PrevTicker
    /\ positions[PrevTicker].shares > LastTrade.shares

\* C26: with allow_shorts off no position holds a negative number of shares
\* in any state of a run, every logged trade is for one share or more, and
\* the trade log only grows: entries are appended, never removed or rewritten.
C26_LongOnlyAndAppendOnly ==
    /\ [](~cfg.allow_shorts =>
             /\ \A t \in DOMAIN positions : positions[t].shares >= 0
             /\ \A i \in 1..Len(trades) : trades[i].shares >= 1)
    /\ [][~cfg.allow_shorts =>
             /\ Len(trades') >= Len(trades)
             /\ SubSeq(trades', 1, Len(trades)) = trades]_vars

\* a position bought and closed again, both trades in the log
C26_Witness ==
    /\ ~cfg.allow_shorts
    /\ Len(trades) >= 2
    /\ \E t \in DOMAIN positions : positions[t].shares = 0
    /\ \E t \in DOMAIN positions : positions[t].shares > 0

\* ------------------------------------------------------------------------
\* SentimentStrategy (backtest/strategy.py): classification and sizing of one
\* row.  Scores and thresholds are integers in 1/ScoreScale, position
\* fractions integers in 1/PctScale (the six decimals of round(size, 6)).
ScoreScale == 100
PctScale == 1000000
DefaultBuyThreshold == 10
DefaultSellThreshold == -10
DefaultMaxPct == 50000
DefaultMinPct == 5000

StrategyConfig(buy, sell, minp, maxp, conv) ==
    [buy_threshold |-> buy, sell_threshold |-> sell, min_position_pct |-> minp,
     max_position_pct |-> maxp, size_by_conviction |-> conv]

\* (buy, sell): the default, AdaptiveRiskStrategy's Low and High, and custom
\* ones (a positive sell threshold, a negative buy threshold, buy <= sell)
Thresholds ==
    { <<DefaultBuyThreshold, DefaultSellThreshold>>, <<25, -25>>, <<5, -5>>,
      <<50, -50>>, <<10, 5>>, <<-5, -10>>, <<5, 10>>, <<0, 0>> }

SizeRanges == { <<DefaultMinPct, DefaultMaxPct>>, <<DefaultMaxPct, DefaultMaxPct>>,
                <<DefaultMaxPct, DefaultMinPct>> }

StrategyConfigs ==
    { StrategyConfig(th[1], th[2], sr[1], sr[2], conv) :
        th \in Thresholds, sr \in SizeRanges, conv \in BOOLEAN }

\* scores in [-1, 1], the thresholds among them
Scores == {-100, -75, -50, -25, -10, -7, -5, -3, 0, 3, 5, 7, 10, 25, 50, 75, 100}

\* faulty variant: a score equal to the buy threshold is not a BUY
Classify_StrictBuy(c, x) ==
    IF x > c.buy_threshold THEN "BUY"
    ELSE IF x <= c.sell_threshold THEN "SELL"
    ELSE "HOLD"

\* _classify
Classify(c, x) ==
    IF x >= c.buy_threshold THEN "BUY"
    ELSE IF x <= c.sell_threshold THEN "SELL"
    ELSE "HOLD"

\* round(n / d, 0) for d > 0, half to even
RoundHalfEven(n, d) ==
    LET q == n \div d
        r == n % d
    IN  IF 2 * r < d THEN q
        ELSE IF 2 * r > d THEN q + 1
        ELSE IF q % 2 = 0 THEN q ELSE q + 1

\* min(num / max(den, 1e-9), 1.0) as a rational; den <= 0 is the 1e-9 branch,
\* where any positive num saturates
Progress(num, den) ==
    IF den <= 0 THEN (IF num > 0 THEN Rat(1, 1) ELSE Rat(num, 1))
    ELSE IF num >= den THEN Rat(1, 1)
    ELSE Rat(num, den)

\* t of the BUY branch and of the SELL branch of sized(row)
BuyProgress(c, x) == Progress(x - c.buy_threshold, ScoreScale - c.buy_threshold)
SellProgress(c, x) == Progress(Abs(x) - c.sell_threshold, ScoreScale - c.sell_threshold)

\* round(min_position_pct + t * (max_position_pct - min_position_pct), 6)
Sized(c, t) ==
    RoundHalfEven(c.min_position_pct * t.den
                      + t.num * (c.max_position_pct - c.min_position_pct), t.den)

\* _position_sizes for one row
PositionSize(c, sig, x) ==
    IF ~c.size_by_conviction THEN (IF sig # "HOLD" THEN c.max_position_pct ELSE 0)
    ELSE IF sig = "HOLD" THEN 0
    ELSE IF sig = "BUY" THEN Sized(c, BuyProgress(c, x))
    ELSE Sized(c, SellProgress(c, x))

InitStrategy ==
    /\ strategy_cfg \in StrategyConfigs
    /\ score \in Scores
    /\ signal = ""
    /\ size = 0
    /\ strategy_pc = "scores"
    /\ EngineIdle /\ StoreIdle /\ RunnerIdle /\ SummaryIdle /\ MoreIdle

\* signals = scores.apply(self._classify)
ClassifyRow ==
    /\ strategy_pc = "scores"
    /\ signal' = Classify(strategy_cfg, score)
    /\ strategy_pc' = "classified"
    /\ UNCHANGED <<strategy_cfg, score, size>>
    /\ UNCHANGED notStrategyVars

\* sizes = self._position_sizes(scores, signals)
SizeRow ==
    /\ strategy_pc = "classified"
    /\ size' = PositionSize(strategy_cfg, signal, score)
    /\ strategy_pc' = "sized"
    /\ UNCHANGED <<strategy_cfg, score, signal>>
    /\ UNCHANGED notStrategyVars

NextStrategy == ClassifyRow \/ SizeRow

SpecStrategy == InitStrategy /\ [][NextStrategy]_vars

\* ------------------------------------------------------------------------
\* properties of the strategy
ThresholdsOrdered == strategy_cfg.buy_threshold > strategy_cfg.sell_threshold
SizesOrdered == strategy_cfg.min_position_pct <= strategy_cfg.max_position_pct
MinPct == strategy_cfg.min_position_pct
MaxPct == strategy_cfg.max_position_pct

\* progress of the score from its threshold (0) to magnitude 1.0 (1), clamped
Clamp01(num, den) ==
    IF num <= 0 THEN Rat(0, 1) ELSE IF num >= den THEN Rat(1, 1) ELSE Rat(num, den)
C16_T ==
    IF signal = "BUY"
    THEN Clamp01(score - strategy_cfg.buy_threshold, ScoreScale - strategy_cfg.buy_threshold)
    ELSE Clamp01(strategy_cfg.sell_threshold - score, strategy_cfg.sell_threshold + ScoreScale)
C16_Expected == RoundHalfEven(MinPct * C16_T.den + C16_T.num * (MaxPct - MinPct), C16_T.den)
C16_Case ==
    /\ strategy_pc = "sized"
    /\ strategy_cfg.size_by_conviction
    /\ ThresholdsOrdered /\ SizesOrdered

\* the BUY half of C16, which the code satisfies
C16_BuySizedByConviction ==
    (C16_Case /\ signal = "BUY") =>
        /\ size = C16_Expected
        /\ score = strategy_cfg.buy_threshold => size = MinPct
        /\ score = ScoreScale => size = MaxPct
        /\ MinPct <= size /\ size <= MaxPct

\* C16: with size_by_conviction on, buy_threshold > sell_threshold and
\* min_position_pct <= max_position_pct, a BUY or SELL is sized
\* min_pct + t*(max_pct - min_pct) with t the score's progress from its own
\* threshold to magnitude 1.0 clamped to [0, 1]: min_position_pct at the
\* threshold, max_position_pct at +1 or -1, always within [min, max]; HOLD is 0.
C16_SizedByConviction ==
    C16_Case =>
        /\ signal = "HOLD" => size = 0
        /\ signal # "HOLD" =>
              /\ size = C16_Expected
              /\ MinPct <= size /\ size <= MaxPct
        /\ (signal = "BUY" /\ score = strategy_cfg.buy_threshold) => size = MinPct
        /\ (signal = "SELL" /\ score = strategy_cfg.sell_threshold) => size = MinPct
        /\ (signal = "BUY" /\ score = ScoreScale) => size = MaxPct
        /\ (signal = "SELL" /\ score = -ScoreScale) => size = MaxPct

\* C17: when buy_threshold > sell_threshold every score gets exactly one of
\* BUY, SELL, HOLD: BUY iff score >= buy_threshold, SELL iff score <=
\* sell_threshold, HOLD iff strictly between; no score is both BUY and SELL.
C17_ClassificationIsTotal ==
    (strategy_pc \in {"classified", "sized"} /\ ThresholdsOrdered) =>
        /\ signal \in Signals
        /\ (signal = "BUY") = (score >= strategy_cfg.buy_threshold)
        /\ (signal = "SELL") = (score <= strategy_cfg.sell_threshold)
        /\ (signal = "HOLD") = (strategy_cfg.sell_threshold < score
                                /\ score < strategy_cfg.buy_threshold)
        /\ ~(score >= strategy_cfg.buy_threshold /\ score <= strategy_cfg.sell_threshold)

\* a score exactly at the buy threshold, classified
C17_Witness ==
    /\ strategy_pc = "classified" /\ ThresholdsOrdered
    /\ score = strategy_cfg.buy_threshold
    /\ signal = "BUY"

\* ------------------------------------------------------------------------
\* Result store (backtest/report.py).  A Python value is [type, num, str]; a
\* JSON value is what json.dump writes for it and json.load reads back.
MaxCalls == 3
MaxCompare == 2

\* faulty variant: every value goes through default=str
JsonDump_AllThroughStr(v) == [json |-> "string", num |-> 0, str |-> v.str]

\* json.dump(..., default=str) on one value
JsonDump(v) ==
    IF v.type = "float" THEN [json |-> "real", num |-> v.num, str |-> ""]
    ELSE IF v.type = "int" THEN [json |-> "integer", num |-> v.num, str |-> ""]
    ELSE IF v.type = "str" THEN [json |-> "string", num |-> 0, str |-> v.str]
    ELSE IF v.type = "NoneType" THEN [json |-> "null", num |-> 0, str |-> ""]
    ELSE [json |-> "string", num |-> 0, str |-> v.str]

\* json.load on one value
JsonLoad(j) ==
    IF j.json = "real" THEN PyFloat(j.num)
    ELSE IF j.json = "integer" THEN PyInt(j.num)
    ELSE IF j.json = "string" THEN PyStr(j.str)
    ELSE None

\* a result dict is a record whose "summary", when present, maps metric keys to
\* values and whose other keys hold values
DumpDict(d) ==
    [k \in DOMAIN d |->
        IF k = "summary" THEN [m \in DOMAIN d[k] |-> JsonDump(d[k][m])] ELSE JsonDump(d[k])]
LoadDict(doc) ==
    [k \in DOMAIN doc |->
        IF k = "summary" THEN [m \in DOMAIN doc[k] |-> JsonLoad(doc[k][m])]
        ELSE JsonLoad(doc[k])]

\* keys of compute_metrics and the ones compute_benchmark_metrics adds
PlainKeys ==
    {"n_days", "cum_return", "ann_return", "ann_volatility", "sharpe_ratio",
     "sortino_ratio", "max_drawdown", "calmar_ratio", "win_rate", "avg_win", "avg_loss",
     "profit_factor", "best_day", "worst_day", "var_95"}
BenchmarkKeys ==
    {"alpha_ann", "beta", "info_ratio", "tracking_error", "up_capture", "down_capture"}

SummaryOf(keys, x) ==
    [k \in keys \cup {"label"} |->
        IF k = "label" THEN PyStr("Strategy")
        ELSE IF k = "n_days" THEN PyInt(x)
        ELSE PyFloat(x)]

\* BacktestResult.to_dict(), as far as the store and the comparison read it
ToDict(keys, x) ==
    [strategy |-> PyStr("SentimentThreshold"), summary |-> SummaryOf(keys, x),
     n_trades |-> PyInt(x)]

\* dicts given to save_result: results without and with benchmark statistics,
\* and a dict that has no summary
ResultDicts ==
    { ToDict(PlainKeys, 1), ToDict(PlainKeys \cup BenchmarkKeys, 2),
      [strategy |-> PyStr("SentimentThreshold"), stamp |-> PyObject("2024-01-02 00:00:00")] }

\* run ids: supplied by the caller, generated by save_result, and one that is
\* never used for saving
RunIds == {"a"}
AutoIds == {"run_t1_x", "run_t2_y"}
QueryIds == RunIds \cup AutoIds \cup {"never"}
Timestamps == {"t1"}

Exception(name) == [op |-> "raise", exc |-> name]
Returned(v) == [op |-> "return", value |-> v]

\* the document save_result writes for result_dict under run_id at time now
SavedDocument(d, run_id, now) ==
    DumpDict([k \in DOMAIN d \cup {"_run_id", "_saved_at"} |->
                 IF k = "_run_id" THEN PyStr(run_id)
                 ELSE IF k = "_saved_at" THEN PyStr(now)
                 ELSE d[k]])

\* load_result on the directory f
LoadResult(f, run_id) ==
    IF run_id \notin DOMAIN f THEN Exception("FileNotFoundError")
    ELSE Returned(LoadDict(f[run_id]))

\* _COMPARE_KEYS
COMPARE_KEYS ==
    << <<"Cumulative Return", "cum_return", "{:+.2%}">>,
       <<"Annualised Return", "ann_return", "{:+.2%}">>,
       <<"Annualised Vol", "ann_volatility", "{:.2%}">>,
       <<"Sharpe", "sharpe_ratio", "{:.3f}">>,
       <<"Sortino", "sortino_ratio", "{:.3f}">>,
       <<"Max Drawdown", "max_drawdown", "{:.2%}">>,
       <<"Calmar", "calmar_ratio", "{:.3f}">>,
       <<"Win Rate", "win_rate", "{:.1%}">>,
       <<"Profit Factor", "profit_factor", "{:.3f}">>,
       <<"VaR (95%)", "var_95", "{:.2%}">>,
       <<"Alpha (ann.)", "alpha_ann", "{:+.2%}">>,
       <<"Beta", "beta", "{:.3f}">>,
       <<"Info Ratio", "info_ratio", "{:.3f}">> >>

\* a cell of the comparison: the dash, or the text fmt.format(v), or str(v)
\* when the format does not apply to v
Dash == [text |-> "dash", fmt |-> "", of |-> None]
Formatted(fmt, v) == [text |-> "formatted", fmt |-> fmt, of |-> v]
Str(v) == [text |-> "str", fmt |-> "", of |-> v]

\* d.get("summary", {}).get(key)
SummaryGet(d, key) ==
    IF "summary" \in DOMAIN d /\ key \in DOMAIN d.summary THEN d.summary[key] ELSE None

\* faulty variant: a missing value is formatted like a number
Cell_MissingFormatted(fmt, v) ==
    IF v.type \in {"float", "int", "NoneType"} THEN Formatted(fmt, v) ELSE Str(v)

Cell(fmt, v) ==
    IF v = None THEN Dash
    ELSE IF v.type \in {"float", "int"} THEN Formatted(fmt, v)
    ELSE Str(v)

\* compare_runs: the loads with their except clause, then the table
CompareRunsResult(f, run_ids) ==
    LET results == [j \in 1..Len(run_ids) |->
                       IF LoadResult(f, run_ids[j]).op = "raise" THEN Empty
                       ELSE LoadResult(f, run_ids[j]).value]
    IN  Returned([columns |-> <<"Metric">> \o run_ids,
                  rows |-> [i \in 1..Len(COMPARE_KEYS) |->
                               <<COMPARE_KEYS[i][1]>> \o
                               [j \in 1..Len(run_ids) |->
                                   Cell(COMPARE_KEYS[i][3],
                                        SummaryGet(results[j], COMPARE_KEYS[i][2]))]]])

IdLists == UNION {[1..n -> QueryIds] : n \in 0..MaxCompare}

InitStore == StoreIdle /\ EngineIdle /\ StrategyIdle /\ RunnerIdle /\ SummaryIdle /\ MoreIdle

Called == store_calls < MaxCalls /\ store_calls' = store_calls + 1

\* save_result(result_dict, run_id); None stands for the omitted run_id
SaveResult ==
    /\ Called
    /\ \E d \in ResultDicts, given \in RunIds \cup {"None"}, auto \in AutoIds,
          now \in Timestamps :
          LET run_id == IF given = "None" THEN auto ELSE given
          IN  /\ files' = Put(files, run_id, SavedDocument(d, run_id, now))
              /\ store_op' = [op |-> "save_result", result_dict |-> d, run_id |-> given]
              /\ store_ret' = Returned(run_id)
    /\ UNCHANGED notStoreVars

LoadResultCall ==
    /\ Called
    /\ \E run_id \in QueryIds :
          /\ store_op' = [op |-> "load_result", run_id |-> run_id]
          /\ store_ret' = LoadResult(files, run_id)
    /\ UNCHANGED files
    /\ UNCHANGED notStoreVars

DeleteResult ==
    /\ Called
    /\ \E run_id \in QueryIds :
          /\ store_op' = [op |-> "delete_result", run_id |-> run_id]
          /\ files' = [x \in DOMAIN files \ {run_id} |-> files[x]]
          /\ store_ret' = Returned(run_id \in DOMAIN files)
    /\ UNCHANGED notStoreVars

CompareRuns ==
    /\ Called
    /\ \E run_ids \in IdLists :
          /\ store_op' = [op |-> "compare_runs", run_ids |-> run_ids]
          /\ store_ret' = CompareRunsResult(files, run_ids)
    /\ UNCHANGED files
    /\ UNCHANGED notStoreVars

NextStore == SaveResult \/ LoadResultCall \/ DeleteResult \/ CompareRuns

SpecStore == InitStore /\ [][NextStore]_vars

\* ------------------------------------------------------------------------
\* properties of the store
CallStep(name) == store_calls' = store_calls + 1 /\ store_op'.op = name
Metrics(d) == IF "summary" \in DOMAIN d THEN d.summary ELSE Empty
Touches(r) ==
    \/ CallStep("save_result") /\ store_ret' = Returned(r)
    \/ CallStep("delete_result") /\ store_op'.run_id = r
SameFile(r) ==
    /\ (r \in DOMAIN files') = (r \in DOMAIN files)
    /\ r \in DOMAIN files => files'[r] = files[r]

\* C18: save_result(d, run_id) returns the supplied run_id, or a generated one
\* when none is supplied; as long as that id is neither saved again nor deleted,
\* load_result of it returns a record whose summary metrics equal those of d;
\* load_result of an id that was never saved or has been deleted raises
\* FileNotFoundError.
C18_Step ==
    /\ CallStep("save_result") =>
          /\ store_ret'.op = "return"
          /\ store_ret'.value = IF store_op'.run_id = "None" THEN store_ret'.value
                                ELSE store_op'.run_id
          /\ store_op'.run_id = "None" => store_ret'.value \in AutoIds
          /\ LoadResult(files', store_ret'.value).op = "return"
          /\ Metrics(LoadResult(files', store_ret'.value).value) = Metrics(store_op'.result_dict)
    /\ \A r \in QueryIds : SameFile(r) \/ Touches(r)
    /\ CallStep("delete_result") => store_op'.run_id \notin DOMAIN files'
    /\ CallStep("load_result") =>
          IF store_op'.run_id \in DOMAIN files
          THEN /\ store_ret'.op = "return"
               /\ Metrics(store_ret'.value) = [m \in DOMAIN Metrics(files[store_op'.run_id]) |->
                                                   JsonLoad(files[store_op'.run_id].summary[m])]
          ELSE store_ret' = Exception("FileNotFoundError")

C18_StoreRoundTrip == (files = Empty) /\ [][C18_Step]_vars

\* a record loaded back under a generated id, after an unrelated delete
C18_Witness ==
    /\ store_calls = 3
    /\ store_op.op = "load_result" /\ store_op.run_id \in AutoIds
    /\ store_ret.op = "return"
    /\ "summary" \in DOMAIN store_ret.value
    /\ store_ret.value.summary = SummaryOf(PlainKeys \cup BenchmarkKeys, 2)

\* C19: compare_runs never raises, whatever the identifiers (saved, never
\* saved, deleted); it returns one column per identifier in the given order
\* after the metric column and one row per comparison metric; a cell is the
\* dash exactly when that run has no value for that metric, which includes
\* every cell of a run absent from the store.
C19_Ids == store_op.run_ids
C19_HasValue(rid, key) ==
    /\ rid \in DOMAIN files
    /\ "summary" \in DOMAIN files[rid]
    /\ key \in DOMAIN files[rid].summary
    /\ files[rid].summary[key].json # "null"
C19_CompareNeverRaises ==
    store_op.op = "compare_runs" =>
        /\ store_ret.op = "return"
        /\ store_ret.value.columns = <<"Metric">> \o C19_Ids
        /\ Len(store_ret.value.rows) = Len(COMPARE_KEYS)
        /\ \A i \in 1..Len(COMPARE_KEYS) :
              /\ Len(store_ret.value.rows[i]) = 1 + Len(C19_Ids)
              /\ store_ret.value.rows[i][1] = COMPARE_KEYS[i][1]
              /\ \A j \in 1..Len(C19_Ids) :
                    (store_ret.value.rows[i][j + 1] = Dash)
                        = ~C19_HasValue(C19_Ids[j], COMPARE_KEYS[i][2])

\* a saved run without benchmark statistics compared with an absent one
C19_Witness ==
    /\ store_op.op = "compare_runs"
    /\ Len(C19_Ids) = 2
    /\ C19_Ids[1] \in DOMAIN files /\ C19_Ids[2] \notin DOMAIN files
    /\ C19_HasValue(C19_Ids[1], "sharpe_ratio") /\ ~C19_HasValue(C19_Ids[1], "beta")

\* ------------------------------------------------------------------------
\* run_backtest (backtest/runner.py) up to the engine call and the save
MaxTickers == 2

\* the embedded universe: ticker -> sector, in list order
UniverseOrder == <<"A", "B", "C", "SPY">>
SectorOf == [t \in {"A", "B", "C", "SPY"} |->
                IF t \in {"A", "B"} THEN "Technology" ELSE IF t = "C" THEN "Energy" ELSE "ETF"]

\* Universe.tickers and Universe.tickers_by_sector(sector)
UniverseTickers == UniverseOrder
TickersBySector(sector) == SelectSeq(UniverseOrder, LAMBDA t : SectorOf[t] = sector)

\* a call universe.tickers_by_sector(*args): the method takes exactly one
\* positional argument besides self
CallTickersBySector(args) ==
    IF Len(args) # 1 THEN [exc |-> "TypeError", about |-> "tickers_by_sector", value |-> <<>>]
    ELSE [exc |-> "", about |-> "", value |-> TickersBySector(args[1])]

\* t.upper() on the ticker spellings of the model
Upper(t) == IF t = "a" THEN "A" ELSE IF t = "spy" THEN "SPY" ELSE t

\* list(dict.fromkeys(t.upper() for t in tickers))
RECURSIVE DedupUpper(_)
DedupUpper(list) ==
    IF list = <<>> THEN <<>>
    ELSE LET init == DedupUpper(SubSeq(list, 1, Len(list) - 1))
             last == Upper(list[Len(list)])
         IN  IF \E i \in 1..Len(init) : init[i] = last THEN init ELSE Append(init, last)

\* load_backtest_data: the requested tickers for which prices were found
LoadBacktestData(load_tickers, found) == load_tickers \cap found

Spellings == {"a", "A", "B", "SPY"}
TickerLists == UNION {[1..n -> Spellings] : n \in 0..MaxTickers}
Sectors == {"", "Technology", "Energy", "Crypto"}
Loadables == {{}, {"SPY"}, {"A", "SPY"}, {"B"}, {"A", "B", "C", "SPY"}, {"C", "SPY"}}

InitRunner ==
    /\ \E given \in BOOLEAN, list \in TickerLists, sector \in Sectors, save \in BOOLEAN,
          found \in Loadables :
          /\ given \/ list = <<>>
          /\ RunnerInit(RunArgs(given, list, sector, save), found)
    /\ EngineIdle /\ StrategyIdle /\ StoreIdle /\ SummaryIdle /\ MoreIdle

\* 1. Resolve ticker list
ResolveTickers ==
    /\ run_pc = "start"
    /\ IF ~run_args.tickers_given
       THEN IF run_args.sector # ""
            THEN LET by_sector == CallTickersBySector(<<>>)
                 IN  IF by_sector.exc # ""
                     THEN /\ run_raised' = [exc |-> by_sector.exc, about |-> by_sector.about]
                          /\ run_pc' = "error"
                          /\ UNCHANGED tickers
                     ELSE IF by_sector.value = <<>>
                     THEN /\ run_raised' = [exc |-> "ValueError", about |-> run_args.sector]
                          /\ run_pc' = "error"
                          /\ UNCHANGED tickers
                     ELSE /\ tickers' = by_sector.value
                          /\ run_pc' = "resolved"
                          /\ UNCHANGED run_raised
            ELSE /\ tickers' = UniverseTickers
                 /\ run_pc' = "resolved"
                 /\ UNCHANGED run_raised
       ELSE /\ tickers' = DedupUpper(run_args.tickers)
            /\ run_pc' = "resolved"
            /\ UNCHANGED run_raised
    /\ UNCHANGED <<run_args, loadable, raw, bench_data, backtest_data, engine_called, saved>>
    /\ UNCHANGED notRunnerVars

\* 3. Load the data, separate the benchmark, keep the requested tickers
LoadData ==
    /\ run_pc = "resolved"
    /\ LET requested == {tickers[i] : i \in 1..Len(tickers)}
           loaded == LoadBacktestData(requested \cup {run_args.benchmark_ticker}, loadable)
           popped == loaded \ {run_args.benchmark_ticker}
           kept == SelectSeq(tickers, LAMBDA t : t \in popped)
       IN  /\ bench_data' = (run_args.benchmark_ticker \in loaded)
           /\ raw' = popped
           /\ backtest_data' = kept
           /\ IF kept = <<>>
              THEN /\ run_raised' = [exc |-> "RuntimeError", about |-> "No price data loaded"]
                   /\ run_pc' = "error"
              ELSE /\ run_pc' = "loaded"
                   /\ UNCHANGED run_raised
    /\ UNCHANGED <<run_args, loadable, tickers, engine_called, saved>>
    /\ UNCHANGED notRunnerVars

\* 4. engine.run(data = backtest_data, ...): it returns a result or raises
RunEngine ==
    /\ run_pc = "loaded"
    /\ engine_called' = TRUE
    /\ \/ run_pc' = "ran" /\ UNCHANGED run_raised
       \/ /\ run_pc' = "error"
          /\ run_raised' = [exc |-> "ValueError", about |-> "No valid trading dates found"]
    /\ UNCHANGED <<run_args, loadable, tickers, raw, bench_data, backtest_data, saved>>
    /\ UNCHANGED notRunnerVars

\* 5. Persist the result and return it
PersistAndReturn ==
    /\ run_pc = "ran"
    /\ saved' = run_args.save_results
    /\ run_pc' = "returned"
    /\ UNCHANGED <<run_args, loadable, tickers, raw, bench_data, backtest_data, run_raised,
                   engine_called>>
    /\ UNCHANGED notRunnerVars

NextRunner == ResolveTickers \/ LoadData \/ RunEngine \/ PersistAndReturn

SpecRunner == InitRunner /\ [][NextRunner]_vars

\* ------------------------------------------------------------------------
\* properties of the runner
C15_BySector == ~run_args.tickers_given /\ run_args.sector # "" /\ run_pc # "start"
C15_NoneLoaded ==
    /\ run_pc \notin {"start", "resolved"}
    /\ \A i \in 1..Len(tickers) : tickers[i] \notin loadable

\* the half of C15 about missing price data, which the code satisfies
C15_NoDataFailsFast ==
    C15_NoneLoaded =>
        /\ run_pc = "error" /\ run_raised.exc # ""
        /\ ~engine_called /\ ~saved

\* C15: run_backtest fails fast: with tickers=None and a sector name it runs on
\* exactly the universe's tickers of that sector when there are some and raises
\* ValueError naming the sector when there are none; when no requested ticker
\* has loaded price data (an empty ticker list included) it raises before
\* BacktestEngine.run is called and before anything is saved.
C15_FailsFast ==
    /\ C15_BySector =>
          IF \E t \in DOMAIN SectorOf : SectorOf[t] = run_args.sector
          THEN /\ tickers = SelectSeq(UniverseOrder, LAMBDA t : SectorOf[t] = run_args.sector)
               /\ run_raised.exc \in {"", "RuntimeError"} \/ engine_called
          ELSE /\ run_pc = "error"
               /\ run_raised = [exc |-> "ValueError", about |-> run_args.sector]
               /\ ~engine_called /\ ~saved
    /\ C15_NoDataFailsFast

C27_Backtested == {backtest_data[i] : i \in 1..Len(backtest_data)}
C27_RequestedAndLoaded == {tickers[i] : i \in 1..Len(tickers)} \cap loadable

\* C27: every requested ticker for which price data was loaded is in the
\* ticker list handed to the engine, a requested ticker that equals
\* benchmark_ticker included.
C27_RequestedTickersAreBacktested ==
    engine_called => C27_RequestedAndLoaded \subseteq C27_Backtested

\* what the code does: the benchmark ticker is the one requested ticker left out
C27_AllButBenchmarkBacktested ==
    engine_called =>
        C27_Backtested = C27_RequestedAndLoaded \ {run_args.benchmark_ticker}

\* ------------------------------------------------------------------------
\* The summary of a run (engine.py steps 4 to 6, metrics.py): which metrics it
\* holds, as decided by the lengths of the return series.
MaxDates == 13
MinMetricDays == 2
MinBenchmarkDays == 10
BenchmarkGate == 10

\* _empty_metrics
EmptyMetricsKeys == {"label", "n_days"} \cup (PlainKeys \ {"n_days"})

\* compute_metrics on n returns
ComputeMetricsKeys(n) ==
    IF n < MinMetricDays THEN EmptyMetricsKeys ELSE PlainKeys \cup {"label"}

\* compute_benchmark_metrics, both being the aligned frame after dropna
ComputeBenchmarkMetricsKeys(n, both) ==
    IF both < MinBenchmarkDays THEN ComputeMetricsKeys(n)
    ELSE ComputeMetricsKeys(n) \cup BenchmarkKeys

InitSummary ==
    /\ \E n \in 1..MaxDates : \E b \in -1..(n - 1) : SummaryInit(n, b)
    /\ EngineIdle /\ StrategyIdle /\ StoreIdle /\ RunnerIdle /\ MoreIdle

\* port_returns = value_series.pct_change().dropna()
BuildReturns ==
    /\ summary_pc = "simulated"
    /\ port_returns_len' = n_dates - 1
    /\ summary_pc' = "returns"
    /\ UNCHANGED <<n_dates, bench_days, bench_returns_len, summary_keys>>
    /\ UNCHANGED notSummaryVars

\* bench_returns = bp.reindex(port_returns.index).fillna(0.0) when there is a
\* benchmark: one value per return day of the run
AlignBenchmark ==
    /\ summary_pc = "returns"
    /\ bench_returns_len' = IF bench_days >= 0 THEN port_returns_len ELSE -1
    /\ summary_pc' = "aligned"
    /\ UNCHANGED <<n_dates, bench_days, port_returns_len, summary_keys>>
    /\ UNCHANGED notSummaryVars

\* step 6
ComputeSummary ==
    /\ summary_pc = "aligned"
    /\ summary_keys' =
           IF bench_returns_len # -1 /\ bench_returns_len > BenchmarkGate
           THEN ComputeBenchmarkMetricsKeys(port_returns_len, bench_returns_len)
           ELSE ComputeMetricsKeys(port_returns_len)
    /\ summary_pc' = "summarised"
    /\ UNCHANGED <<n_dates, bench_days, port_returns_len, bench_returns_len>>
    /\ UNCHANGED notSummaryVars

NextSummary == BuildReturns \/ AlignBenchmark \/ ComputeSummary

SpecSummary == InitSummary /\ [][NextSummary]_vars

\* ------------------------------------------------------------------------
\* properties of the summary
\* return days on which the run and the (zero-filled) benchmark both have a value
C20_AlignedDays == n_dates - 1

\* C20: a run with a benchmark has alpha, beta, information ratio, tracking
\* error and up/down capture in its summary whenever at least 10 aligned return
\* days exist, exactly 10 included, and has the plain metrics, without raising,
\* when fewer than 10 exist.
C20_BenchmarkFromTenDays ==
    (summary_pc = "summarised" /\ bench_days >= 0) =>
        /\ PlainKeys \subseteq summary_keys
        /\ IF C20_AlignedDays >= 10
           THEN BenchmarkKeys \subseteq summary_keys
           ELSE summary_keys \cap BenchmarkKeys = {}

\* what the code does: the benchmark statistics need more than 10 days
C20_BenchmarkFromElevenDays ==
    (summary_pc = "summarised" /\ bench_days >= 0) =>
        /\ PlainKeys \subseteq summary_keys
        /\ IF C20_AlignedDays >= 11
           THEN BenchmarkKeys \subseteq summary_keys
           ELSE summary_keys \cap BenchmarkKeys = {}

\* ---------------------------------------------------------------------------
\* The metrics of one return series (metrics.py).  pandas and numpy compute in
\* binary floating point, rounding every operation to the nearest value, ties
\* to even.  The model does the same with a significand of FloatBits bits (a
\* double has 53) and an unbounded exponent: a float is m * 2^e with m = 0 or
\* 2^(FloatBits-1) <= |m| < 2^FloatBits.
MaxReturns == 3
FloatBits == 12

Float(m, e) == [m |-> m, e |-> e, kind |-> "finite"]
FZero == Float(0, 0)
\* NaN, +inf or -inf
NotFinite == [m |-> 0, e |-> 0, kind |-> "notfinite"]
\* a float the model does not evaluate
SomeFloat == [m |-> 0, e |-> 0, kind |-> "unmodelled"]
IsFinite(a) == a.kind = "finite"

RECURSIVE BitLength(_)
BitLength(n) == IF n = 0 THEN 0 ELSE 1 + BitLength(n \div 2)

\* the float nearest to m * 2^e, ties to even
Round(m, e) ==
    IF m = 0 THEN FZero
    ELSE LET a == Abs(m)
             b == BitLength(a)
         IN  IF b <= FloatBits
             THEN Float(m * 2^(FloatBits - b), e - (FloatBits - b))
             ELSE LET sh == b - FloatBits
                      q == a \div 2^sh
                      r == a % 2^sh
                      h == 2^(sh - 1)
                      up == IF r > h \/ (r = h /\ q % 2 = 1) THEN q + 1 ELSE q
                  IN  IF up = 2^FloatBits
                      THEN Float(Sign(m) * (up \div 2), e + sh + 1)
                      ELSE Float(Sign(m) * up, e + sh)

FromInt(n) == Round(n, 0)

\* the float nearest to n / d (d > 0): a literal such as 0.05; the quotient is
\* taken two bits wider than a significand and the last bit records a remainder
FromRat(n, d) ==
    IF n = 0 THEN FZero
    ELSE LET k == Max(FloatBits + 2 + BitLength(d) - BitLength(Abs(n)), 0)
             N == Abs(n) * 2^k
         IN  Round(Sign(n) * (2 * (N \div d) + (IF N % d = 0 THEN 0 ELSE 1)), -k - 1)

FNeg(a) == IF IsFinite(a) THEN Float(-a.m, a.e) ELSE a

FAdd(a, b) ==
    IF ~IsFinite(a) \/ ~IsFinite(b) THEN NotFinite
    ELSE IF a.m = 0 THEN b
    ELSE IF b.m = 0 THEN a
    ELSE LET hi == IF a.e >= b.e THEN a ELSE b
             lo == IF a.e >= b.e THEN b ELSE a
             d == hi.e - lo.e
         IN  IF d > FloatBits + 1 THEN hi ELSE Round(hi.m * 2^d + lo.m, lo.e)

FSub(a, b) == FAdd(a, FNeg(b))

FMul(a, b) ==
    IF ~IsFinite(a) \/ ~IsFinite(b) THEN NotFinite ELSE Round(a.m * b.m, a.e + b.e)

\* a / b; x / 0 is infinite and 0 / 0 is NaN (numpy warns and goes on)
FDiv(a, b) ==
    IF ~IsFinite(a) \/ ~IsFinite(b) \/ b.m = 0 THEN NotFinite
    ELSE IF a.m = 0 THEN FZero
    ELSE LET k == FloatBits + 2
             N == Abs(a.m) * 2^k
             q == N \div Abs(b.m)
             sticky == IF N % Abs(b.m) = 0 THEN 0 ELSE 1
         IN  Round(Sign(a.m) * Sign(b.m) * (2 * q + sticky), a.e - b.e - k - 1)

\* a < b; a comparison with NaN is false
FLess(a, b) == IsFinite(a) /\ IsFinite(b) /\ FSub(a, b).m < 0

RECURSIVE Bisect(_, _, _)
Bisect(n, lo, hi) ==
    IF lo >= hi THEN lo
    ELSE LET mid == (lo + hi + 1) \div 2
         IN  IF mid * mid <= n THEN Bisect(n, mid, hi) ELSE Bisect(n, lo, mid - 1)

\* floor(sqrt(n)) for n < 2^30
ISqrt(n) == Bisect(n, 0, 2^15)

\* np.sqrt
FSqrt(a) ==
    IF ~IsFinite(a) \/ a.m < 0 THEN NotFinite
    ELSE IF a.m = 0 THEN FZero
    ELSE LET k == IF (a.e - FloatBits) % 2 = 0 THEN FloatBits + 2 ELSE FloatBits + 3
             M == a.m * 2^k
             root == ISqrt(M)
             sticky == IF root * root = M THEN 0 ELSE 1
         IN  Round(2 * root + sticky, ((a.e - k) \div 2) - 1)

\* round(x, 4) of a Python float
Round4(x) ==
    IF ~IsFinite(x) \/ x.m = 0 \/ x.e >= 0 THEN x
    ELSE IF -x.e > 30 THEN FZero
    ELSE FromRat(RoundHalfEven(x.m * 10000, 2^(-x.e)), 10000)

\* RISK_FREE_RATE_DAILY = RISK_FREE_RATE_ANNUAL / TRADING_DAYS_PER_YEAR
RISK_FREE_RATE_DAILY ==
    FDiv(FromRat(RfAnnualNum, RfAnnualDen), FromInt(TRADING_DAYS_PER_YEAR))

\* returns.dropna(), the values as floats
DropNa(series) ==
    LET kept == SelectSeq(series, LAMBDA x : ~IsNaN(x))
    IN  [i \in 1..Len(kept) |-> FromRat(kept[i].num, kept[i].den)]

\* values.sum(): numpy adds a short array from left to right
RECURSIVE FSum(_, _)
FSum(xs, k) == IF k = 0 THEN FZero ELSE FAdd(FSum(xs, k - 1), xs[k])

\* Series.mean(): the sum over the count
FMean(xs) == FDiv(FSum(xs, Len(xs)), FromInt(Len(xs)))

\* Series.std(): two passes, ddof = 1 (pandas nanvar, then the square root)
FStd(xs) ==
    LET avg == FMean(xs)
        sqr == [i \in 1..Len(xs) |-> FMul(FSub(avg, xs[i]), FSub(avg, xs[i]))]
    IN  FSqrt(FDiv(FSum(sqr, Len(xs)), FromInt(Len(xs) - 1)))

\* sharpe: the mean of the excess returns over their standard deviation,
\* annualised, or 0.0 when the deviation is not above zero
Sharpe(r) ==
    LET excess == [i \in 1..Len(r) |-> FSub(r[i], RISK_FREE_RATE_DAILY)]
        sd == FStd(excess)
    IN  IF FLess(FZero, sd)
        THEN FMul(FDiv(FMean(excess), sd), FSqrt(FromInt(TRADING_DAYS_PER_YEAR)))
        ELSE FZero

\* cum_curve = (1 + returns).cumprod(), at position k
RECURSIVE CumCurve(_, _)
CumCurve(r, k) ==
    IF k = 1 THEN FAdd(FromInt(1), r[1])
    ELSE FMul(CumCurve(r, k - 1), FAdd(FromInt(1), r[k]))

\* faulty variant: the peak is the first value of the curve
RollingMax_FirstValue(r, k) == CumCurve(r, 1)

\* rolling_max = cum_curve.cummax(), at position k
RECURSIVE RollingMax(_, _)
RollingMax(r, k) ==
    IF k = 1 THEN CumCurve(r, 1)
    ELSE LET before == RollingMax(r, k - 1)
             here == CumCurve(r, k)
         IN  IF FLess(before, here) THEN here ELSE before

\* drawdowns = (cum_curve - rolling_max) / rolling_max, at position k
Drawdown(r, k) == FDiv(FSub(CumCurve(r, k), RollingMax(r, k)), RollingMax(r, k))

\* max_dd = drawdowns.min()
MaxDrawdown(r) ==
    LET dds == {Drawdown(r, k) : k \in 1..Len(r)}
    IN  IF \E d \in dds : ~IsFinite(d) THEN NotFinite
        ELSE CHOOSE d \in dds : \A o \in dds : ~FLess(o, d)

\* calmar = ann_return / abs(max_dd) if max_dd != 0 else 0.0; the annualised
\* return (a power) is not evaluated
Calmar(max_dd) == IF max_dd # FZero THEN SomeFloat ELSE FZero

MetricKeys == PlainKeys \ {"n_days"}

\* _empty_metrics(label)
EmptyMetrics(label) ==
    [label |-> label, n_days |-> 0, metric |-> [k \in MetricKeys |-> FZero]]

\* faulty variant: a single return is enough
ComputeMetrics_FromOneReturn(series, label) ==
    LET r == DropNa(series)
    IN  IF Len(r) < 1 THEN EmptyMetrics(label)
        ELSE [label |-> label, n_days |-> Len(r),
              metric |-> [k \in MetricKeys |->
                  IF k = "sharpe_ratio" THEN Round4(Sharpe(r))
                  ELSE IF k = "max_drawdown" THEN Round4(MaxDrawdown(r))
                  ELSE IF k = "calmar_ratio" THEN Round4(Calmar(MaxDrawdown(r)))
                  ELSE SomeFloat]]

\* compute_metrics(returns, label); of the metrics of two returns or more the
\* model evaluates the Sharpe ratio, the maximum drawdown and whether the
\* Calmar ratio is the literal 0.0
ComputeMetrics(series, label) ==
    LET r == DropNa(series)
    IN  IF Len(r) < MinMetricDays THEN EmptyMetrics(label)
        ELSE [label |-> label, n_days |-> Len(r),
              metric |-> [k \in MetricKeys |->
                  IF k = "sharpe_ratio" THEN Round4(Sharpe(r))
                  ELSE IF k = "max_drawdown" THEN Round4(MaxDrawdown(r))
                  ELSE IF k = "calmar_ratio" THEN Round4(Calmar(MaxDrawdown(r)))
                  ELSE SomeFloat]]

\* compute_benchmark_metrics(strategy_returns, benchmark_returns); the two
\* series are aligned on their dates, here their positions
ComputeBenchmarkMetrics(strategy_returns, bench, label) ==
    LET base == ComputeMetrics(strategy_returns, label)
        both == {i \in 1..Len(strategy_returns) :
                    /\ i <= Len(bench)
                    /\ ~IsNaN(strategy_returns[i])
                    /\ ~IsNaN(bench[i])}
    IN  IF Cardinality(both) < MinBenchmarkDays THEN base
        ELSE [base EXCEPT !.metric =
                  [k \in MetricKeys \cup BenchmarkKeys |->
                      IF k \in BenchmarkKeys THEN SomeFloat ELSE base.metric[k]]]

\* sorted(results, key=sharpe_ratio, reverse=True): x goes behind the entries
\* whose Sharpe ratio is not below its own
RECURSIVE InsertBySharpe(_, _)
InsertBySharpe(x, sorted) ==
    IF sorted = <<>> THEN <<x>>
    ELSE IF FLess(Head(sorted).metric["sharpe_ratio"], x.metric["sharpe_ratio"])
         THEN <<x>> \o sorted
         ELSE <<Head(sorted)>> \o InsertBySharpe(x, Tail(sorted))

\* compute_per_ticker_metrics(ticker_returns), the dict given as its items
RECURSIVE ComputePerTickerMetrics(_)
ComputePerTickerMetrics(items) ==
    IF items = <<>> THEN <<>>
    ELSE LET n == Len(items)
         IN  InsertBySharpe(ComputeMetrics(items[n].returns, items[n].ticker),
                            ComputePerTickerMetrics(SubSeq(items, 1, n - 1)))

\* the inputs: daily returns of -10 %, 0, 1 % and 10 %, and missing values
ReturnValues == {NaN, Rat(-10, 100), Rat(0, 1), Rat(1, 100), Rat(10, 100)}
ReturnSeries == UNION {[1..n -> ReturnValues] : n \in 0..MaxReturns}
SecondSeries(n) == {<<>>, [i \in 1..n |-> Rat(0, 1)], [i \in 1..n |-> Rat(i, 100)]}

InitMetrics ==
    /\ \E r \in ReturnSeries : \E b \in SecondSeries(Len(r)) : MetricsInit(r, b)
    /\ EngineIdle /\ StrategyIdle /\ StoreIdle /\ RunnerIdle /\ SummaryIdle /\ SignalsIdle
    /\ ServerInit

CallComputeMetrics ==
    /\ metrics_call = ""
    /\ metrics_call' = "compute_metrics"
    /\ metrics_ret' = <<ComputeMetrics(returns, "Strategy")>>
    /\ UNCHANGED <<returns, benchmark_returns>>
    /\ UNCHANGED notMetricsVars

CallComputeBenchmarkMetrics ==
    /\ metrics_call = ""
    /\ metrics_call' = "compute_benchmark_metrics"
    /\ metrics_ret' = <<ComputeBenchmarkMetrics(returns, benchmark_returns, "Strategy")>>
    /\ UNCHANGED <<returns, benchmark_returns>>
    /\ UNCHANGED notMetricsVars

CallComputePerTickerMetrics ==
    /\ metrics_call = ""
    /\ metrics_call' = "compute_per_ticker_metrics"
    /\ metrics_ret' = ComputePerTickerMetrics(<<[ticker |-> "A", returns |-> returns],
                                                [ticker |-> "B", returns |-> benchmark_returns]>>)
    /\ UNCHANGED <<returns, benchmark_returns>>
    /\ UNCHANGED notMetricsVars

NextMetrics ==
    CallComputeMetrics \/ CallComputeBenchmarkMetrics \/ CallComputePerTickerMetrics

SpecMetrics == InitMetrics /\ [][NextMetrics]_vars

\* ------------------------------------------------- properties of the metrics
Present(series) == SelectSeq(series, LAMBDA x : ~IsNaN(x))
IsSentinel(d) ==
    /\ d.n_days = 0
    /\ DOMAIN d.metric = MetricKeys
    /\ \A k \in MetricKeys : d.metric[k] = FZero
SeriesOf(label) == IF label = "B" THEN benchmark_returns ELSE returns

IsConstant(series) == \A i, j \in 1..Len(series) : series[i] = series[j]

\* C22: for every return series of two values or more the Sharpe ratio that
\* compute_metrics returns is finite, and it is exactly 0.0 when the daily
\* return is constant (the excess returns have no deviation).
C22_SharpeZeroOnConstantSeries ==
    (metrics_call = "compute_metrics" /\ Len(Present(returns)) >= 2) =>
        /\ IsFinite(metrics_ret[1].metric["sharpe_ratio"])
        /\ IsConstant(Present(returns)) =>
               metrics_ret[1].metric["sharpe_ratio"] = FZero

\* what the code keeps of it: the ratio is finite
C22_SharpeFinite ==
    (metrics_call = "compute_metrics" /\ Len(Present(returns)) >= 2) =>
        IsFinite(metrics_ret[1].metric["sharpe_ratio"])

\* the largest of the first k values of the cumulative curve
PeakTo(r, k) ==
    LET seen == {CumCurve(r, j) : j \in 1..k}
    IN  CHOOSE c \in seen : \A o \in seen : ~FLess(c, o)
DrawdownAt(r, k) == Round4(FDiv(FSub(CumCurve(r, k), PeakTo(r, k)), PeakTo(r, k)))
AllAbove(series, n) == \A i \in 1..Len(series) : series[i].num > n * series[i].den

\* C23: for a series of two returns or more, all above -1, the maximum
\* drawdown returned is at most 0 and is the least, over the dates, of
\* (cumulative curve - running peak) / running peak (to the four decimals
\* returned); when every return is positive it is exactly 0.0 and so is the
\* Calmar ratio.
C23_MaxDrawdownIsLeastFallFromPeak ==
    (/\ metrics_call = "compute_metrics"
     /\ Len(Present(returns)) >= 2
     /\ AllAbove(Present(returns), -1)) =>
        LET r == DropNa(returns)
            dd == metrics_ret[1].metric["max_drawdown"]
        IN  /\ IsFinite(dd) /\ ~FLess(FZero, dd)
            /\ \E k \in 1..Len(r) : DrawdownAt(r, k) = dd
            /\ \A k \in 1..Len(r) : ~FLess(DrawdownAt(r, k), dd)
            /\ AllAbove(Present(returns), 0) =>
                   /\ dd = FZero
                   /\ metrics_ret[1].metric["calmar_ratio"] = FZero

\* three rising days
C23_Witness ==
    /\ metrics_call = "compute_metrics"
    /\ Len(Present(returns)) = 3
    /\ AllAbove(returns, 0)
    /\ ~IsConstant(returns)
    /\ metrics_ret[1].metric["max_drawdown"] = FZero
    /\ metrics_ret[1].metric["calmar_ratio"] = FZero

\* ---------------------------------------------------------------------------
\* The signal series of one ticker (SentimentStrategy.compute_signals).  The
\* price index is the dates 1..NRows; the sentiment series has a score for
\* some of them.
NRows == 3
DefaultCooldownDays == 3

\* StrategyConfig with its cooldown field
CooldownConfig(n) ==
    [buy_threshold |-> DefaultBuyThreshold, sell_threshold |-> DefaultSellThreshold,
     min_position_pct |-> DefaultMinPct, max_position_pct |-> DefaultMaxPct,
     size_by_conviction |-> TRUE, signal_cooldown_days |-> n]

CooldownDays == {1, DefaultCooldownDays}
SentimentScores == {-50, 0, 50}
SentimentSeries == UNION {[dates -> SentimentScores] : dates \in SUBSET (1..NRows)}

InitSignals ==
    /\ \E n \in CooldownDays, s \in SentimentSeries : SignalsInit(CooldownConfig(n), s)
    /\ EngineIdle /\ StrategyIdle /\ StoreIdle /\ RunnerIdle /\ SummaryIdle /\ MetricsIdle
    /\ ServerInit

\* aligned = sentiment.reindex(prices.index).fillna(0.0)
Aligned(s, date) == IF date \in DOMAIN s THEN s[date] ELSE 0

\* _blend_signals: the identity
BlendSignals(x) == x

\* compute_signals(sentiment, prices): every row is classified and sized on
\* its own score
ComputeSignals ==
    /\ signals_frame = <<>>
    /\ signals_frame' =
           [date \in 1..NRows |->
               LET x == BlendSignals(Aligned(sentiment, date))
               IN  [signal |-> Classify(signals_cfg, x),
                    position_pct |-> PositionSize(signals_cfg, Classify(signals_cfg, x), x),
                    sentiment |-> Aligned(sentiment, date),
                    blended_score |-> x]]
    /\ UNCHANGED <<signals_cfg, sentiment>>
    /\ UNCHANGED notSignalsVars

NextSignals == ComputeSignals

SpecSignals == InitSignals /\ [][NextSignals]_vars

\* ------------------------------------------------ properties of the signals
\* the date of the last BUY or SELL before date, 0 if there is none
LastSignalBefore(date) ==
    LET earlier == {d \in 1..(date - 1) : signals_frame[d].signal # "HOLD"}
    IN  IF earlier = {} THEN 0 ELSE CHOOSE d \in earlier : \A o \in earlier : o <= d

\* the signal of date is opposite to the last BUY or SELL before it
IsFlip(date) ==
    /\ signals_frame[date].signal # "HOLD"
    /\ LastSignalBefore(date) # 0
    /\ signals_frame[LastSignalBefore(date)].signal # signals_frame[date].signal

\* C24: with signal_cooldown_days = N the signal series of a ticker never
\* flips between BUY and SELL fewer than N trading days after its previous
\* flip.
C24_NoFlipWithinCooldown ==
    signals_frame # <<>> =>
        \A i, j \in 1..NRows :
            (i < j /\ IsFlip(i) /\ IsFlip(j)) => j - i >= signals_cfg.signal_cooldown_days

\* what the code does: each row carries the class of its own score
C24_RowsClassifiedAlone ==
    signals_frame # <<>> =>
        \A d \in 1..NRows :
            signals_frame[d].signal = Classify(signals_cfg, Aligned(sentiment, d))

\* ------------------------------------------------ the backtest job (server)
\* server.py keeps one job record, _bt_job, behind _bt_job_lock.  A POST to
\* /api/backtest/run or /api/backtest/run-ticker checks and sets the record in
\* one locked section and then starts a thread running _run_backtest_bg; the
\* thread writes the record in locked sections of its own.  Every locked
\* section is one step here; what a handler or a thread does between two
\* sections is local to it.  Progress texts are spelled in ASCII.

\* d.get(k, default)
DictGet(d, k, default) == IF k \in DOMAIN d THEN d[k] ELSE default

\* faulty variant: only a job that is still queued turns a start away
Rejects_WhileQueued(job) == job.progress = "Queued..."

\* the test both start handlers make under the lock
Rejects(job) == job.status = "running"

\* faulty variant: the result of the earlier run is left in the record
QueuedJob_KeepsResult(job) ==
    [job EXCEPT !.status = "running", !.progress = "Queued...", !.error = None,
                !.run_id = None]

\* the record an accepted start leaves
QueuedJob(job) ==
    [job EXCEPT !.status = "running", !.progress = "Queued...", !.error = None,
                !.run_id = None, !.result = None]

\* the record after run_backtest returned result (a BacktestResult.to_dict())
CompleteJob(job, result) ==
    [job EXCEPT !.status = "complete", !.progress = "Backtest complete",
                !.run_id = DictGet(result, "_run_id", PyStr("")),
                !.result = result, !.error = None]

\* the record after run_backtest raised an exception whose str() is msg
ErrorJob(job, msg) ==
    [job EXCEPT !.status = "error", !.progress = "", !.error = PyStr(msg),
                !.run_id = None]

\* what /api/backtest/status answers
Snapshot(job) == [k \in DOMAIN job \ {"result"} |-> job[k]]

\* what /api/backtest/latest answers: 404 unless a result is in the record
Latest(job) ==
    IF job.result = None
    THEN [route |-> "latest", code |-> 404, job |-> IdleJob, result |-> None]
    ELSE [route |-> "latest", code |-> 200, job |-> IdleJob, result |-> job.result]

\* the BacktestResult.to_dict() of the run made for request r
ResultOf(r) == ToDict(PlainKeys, r)

\* what a request posts: run ids for /run, tickers for /run-ticker
PostedRunIds == {"", "a"}
PostedTickers == {"", "TCS"}
\* str(e) of the exceptions run_backtest raises
Messages == {"", "No price data"}

InitServer ==
    /\ ServerInit
    /\ EngineIdle /\ StrategyIdle /\ StoreIdle /\ RunnerIdle /\ SummaryIdle
    /\ MetricsIdle /\ SignalsIdle

\* requests are numbered in the order their handlers reach the lock
Arrives(r) ==
    /\ handler[r] = "none"
    /\ \A q \in Requests : q < r => handler[q] # "none"

\* the locked section of both start handlers
CheckAndSet(r, p) ==
    /\ params' = [params EXCEPT ![r] = p]
    /\ IF Rejects(bt_job)
       THEN /\ handler' = [handler EXCEPT ![r] = "rejected"]
            /\ UNCHANGED bt_job
       ELSE /\ handler' = [handler EXCEPT ![r] = "accepted"]
            /\ bt_job' = QueuedJob(bt_job)

\* POST /api/backtest/run up to the end of its locked section
StartBacktest(r) ==
    /\ Arrives(r)
    /\ \E run_id \in PostedRunIds : CheckAndSet(r, [route |-> "run", run_id |-> run_id])
    /\ UNCHANGED <<bg, ran, results_dir, response>>
    /\ UNCHANGED notServerVars

\* POST /api/backtest/run-ticker up to the end of its locked section; a
\* request without a ticker is answered 400 before the lock
StartBacktestForTicker(r) ==
    /\ Arrives(r)
    /\ \E ticker \in PostedTickers :
          IF ticker = ""
          THEN /\ handler' = [handler EXCEPT ![r] = "invalid"]
               /\ params' = [params EXCEPT ![r] = [route |-> "run-ticker", run_id |-> ""]]
               /\ UNCHANGED bt_job
          ELSE CheckAndSet(r, [route |-> "run-ticker", run_id |-> ""])
    /\ UNCHANGED <<bg, ran, results_dir, response>>
    /\ UNCHANGED notServerVars

\* threading.Thread(...).start() of an accepted request
StartThread(r) ==
    /\ handler[r] = "accepted"
    /\ handler' = [handler EXCEPT ![r] = "started"]
    /\ bg' = [bg EXCEPT ![r] = "created"]
    /\ UNCHANGED <<bt_job, params, ran, results_dir, response>>
    /\ UNCHANGED notServerVars

\* _run_backtest_bg: the first locked section
BgBegin(r) ==
    /\ bg[r] = "created"
    /\ bg' = [bg EXCEPT ![r] = "loading"]
    /\ bt_job' = [bt_job EXCEPT !.progress = "Loading price data..."]
    /\ UNCHANGED <<handler, params, ran, results_dir, response>>
    /\ UNCHANGED notServerVars

\* run_backtest(..., save_results=True, run_id=params.get("run_id") or None):
\* it raises, or it saves result.to_dict() under the given or a generated id
\* and returns the result
BgRun(r) ==
    /\ bg[r] = "loading"
    /\ \/ \E msg \in Messages :
             /\ ran' = [ran EXCEPT ![r] = [saved_as |-> "", raised |-> PyStr(msg)]]
             /\ bg' = [bg EXCEPT ![r] = "raised"]
             /\ UNCHANGED results_dir
       \/ \E auto \in AutoIds, now \in Timestamps :
             LET run_id == IF params[r].run_id = "" THEN auto ELSE params[r].run_id
             IN  /\ results_dir' =
                        Put(results_dir, run_id, SavedDocument(ResultOf(r), run_id, now))
                 /\ ran' = [ran EXCEPT ![r] = [saved_as |-> run_id, raised |-> None]]
                 /\ bg' = [bg EXCEPT ![r] = "returned"]
    /\ UNCHANGED <<bt_job, handler, params, response>>
    /\ UNCHANGED notServerVars

\* _run_backtest_bg: the locked section after run_backtest returned
BgComplete(r) ==
    /\ bg[r] = "returned"
    /\ bg' = [bg EXCEPT ![r] = "finished"]
    /\ bt_job' = CompleteJob(bt_job, ResultOf(r))
    /\ UNCHANGED <<handler, params, ran, results_dir, response>>
    /\ UNCHANGED notServerVars

\* _run_backtest_bg: the except branch
BgError(r) ==
    /\ bg[r] = "raised"
    /\ bg' = [bg EXCEPT ![r] = "finished"]
    /\ bt_job' = ErrorJob(bt_job, ran[r].raised.str)
    /\ UNCHANGED <<handler, params, ran, results_dir, response>>
    /\ UNCHANGED notServerVars

\* GET /api/backtest/status
BacktestStatus ==
    /\ response' = [route |-> "status", code |-> 200, job |-> Snapshot(bt_job),
                    result |-> None]
    /\ UNCHANGED <<bt_job, handler, params, bg, ran, results_dir>>
    /\ UNCHANGED notServerVars

\* GET /api/backtest/latest
BacktestLatestResult ==
    /\ response' = Latest(bt_job)
    /\ UNCHANGED <<bt_job, handler, params, bg, ran, results_dir>>
    /\ UNCHANGED notServerVars

\* GET /api/backtest/result/<run_id>, asked with the run_id the job reports
GetBacktestResult ==
    /\ bt_job.run_id # None
    /\ LET loaded == LoadResult(results_dir, bt_job.run_id.str)
       IN  response' =
               IF loaded.op = "raise"
               THEN [route |-> "result", code |-> 404, job |-> IdleJob, result |-> None]
               ELSE [route |-> "result", code |-> 200, job |-> IdleJob,
                     result |-> loaded.value]
    /\ UNCHANGED <<bt_job, handler, params, bg, ran, results_dir>>
    /\ UNCHANGED notServerVars

NextServer ==
    \/ \E r \in Requests : StartBacktest(r)
    \/ \E r \in Requests : StartBacktestForTicker(r)
    \/ \E r \in Requests : StartThread(r)
    \/ \E r \in Requests : BgBegin(r)
    \/ \E r \in Requests : BgRun(r)
    \/ \E r \in Requests : BgComplete(r)
    \/ \E r \in Requests : BgError(r)
    \/ BacktestStatus
    \/ BacktestLatestResult
    \/ GetBacktestResult

SpecServer == InitServer /\ [][NextServer]_vars

\* a started thread is scheduled, and run_backtest returns or raises
SpecServerFair ==
    /\ SpecServer
    /\ \A r \in Requests :
          /\ WF_vars(StartThread(r))
          /\ WF_vars(BgBegin(r))
          /\ WF_vars(BgRun(r))
          /\ WF_vars(BgComplete(r))
          /\ WF_vars(BgError(r))

\* ------------------------------------------------------ properties (server)

\* the thread of request r exists and has not finished
InProgress(r) == bg[r] \in {"created", "loading", "returned", "raised"}
StartStep(r) == StartBacktest(r) \/ StartBacktestForTicker(r)
\* the request whose start was accepted last
LastAccepted ==
    CHOOSE r \in Requests :
        /\ handler[r] \in {"accepted", "started"}
        /\ \A q \in Requests : q > r => handler[q] \notin {"accepted", "started"}

\* C28: however start requests and thread steps interleave, at most one
\* background backtest is in progress, and a start request that finds the
\* status "running" starts no thread and leaves the job record as it was
C28_AtMostOneBacktest ==
    /\ [](/\ Cardinality({r \in Requests : InProgress(r) \/ handler[r] = "accepted"}) <= 1
          /\ \A r \in Requests : handler[r] \in {"rejected", "invalid"} => bg[r] = "none")
    /\ [][\A r \in Requests :
             StartStep(r) /\ bt_job.status = "running" =>
                 /\ UNCHANGED <<bt_job, bg>>
                 /\ handler'[r] \in {"rejected", "invalid"}]_vars

\* a request was turned away while the thread of another was running
C28_Witness ==
    \E r, q \in Requests :
        /\ handler[r] = "rejected"
        /\ bg[q] = "loading"
        /\ bt_job.status = "running"

\* C29: an accepted start is followed by status "complete" or "error";
\* "complete" only after run_backtest returned, with its result in the record;
\* "error" with an error and no run_id; and /api/backtest/latest serves no
\* result while the status is "running"
C29_JobEndsCompleteOrError ==
    /\ [](/\ bt_job.status = "complete" =>
                /\ bg[LastAccepted] = "finished"
                /\ ran[LastAccepted].raised = None
                /\ bt_job.result = ResultOf(LastAccepted)
          /\ bt_job.status = "error" =>
                /\ bt_job.error # None
                /\ bt_job.run_id = None
                /\ ran[LastAccepted].raised # None)
    /\ [][BacktestLatestResult /\ bt_job.status = "running" => response'.code = 404]_vars
    /\ \A r \in Requests :
          handler[r] = "accepted" ~> bt_job.status \in {"complete", "error"}
    /\ (bt_job.status = "running") ~> (bt_job.status \in {"complete", "error"})

\* /api/backtest/latest answered 404 during a run that follows a completed one
C29_Witness ==
    /\ bt_job.status = "running"
    /\ response.route = "latest"
    /\ response.code = 404
    /\ \E q \in Requests : bg[q] = "finished" /\ ran[q].raised = None

\* C30: when a backtest has completed, the run_id in the job record is the id
\* under which run_backtest saved the result, and load_result of it returns
\* that run
C30_ReportedRunIdLoadsTheRun ==
    bt_job.status = "complete" =>
        /\ bt_job.run_id = PyStr(ran[LastAccepted].saved_as)
        /\ LoadResult(results_dir, bt_job.run_id.str).op = "return"
        /\ LoadResult(results_dir, bt_job.run_id.str).value.n_trades = PyInt(LastAccepted)

\* what holds instead: the reported run_id is the empty string, which names no
\* saved result, while the run is saved under another id
C30_ReportedRunIdIsEmpty ==
    bt_job.status = "complete" =>
        /\ bt_job.run_id = PyStr("")
        /\ LoadResult(results_dir, "").op = "raise"
        /\ LoadResult(results_dir, ran[LastAccepted].saved_as).op = "return"
        /\ LoadResult(results_dir, ran[LastAccepted].saved_as).value.n_trades
               = PyInt(LastAccepted)

====
